---- MODULE Spec2Model ----
(***************************************************************************)
(* Model of the cephadm orchestrator module (src/pybind/mgr/cephadm/        *)
(* module.py) and of the orchestrator command surface                       *)
(* (src/pybind/mgr/orchestrator/module.py): host inventory, the per-host    *)
(* caches, the connection table, daemon create/remove and the service       *)
(* reconciler.                                                              *)
(***************************************************************************)
EXTENDS Integers, Sequences, FiniteSets, TLC

VARIABLES
    inventory,        \* self.inventory: hostname -> [addr, labels]
    store_inventory,  \* the persisted 'inventory' blob: [set, blob]
    inventory_cache,  \* self.inventory_cache: hostname -> OutdatableData
    daemon_cache,     \* self.daemon_cache: hostname -> OutdatableData
    host_order,       \* the order in which the dicts keyed by host name iterate
    cons,             \* self._cons: connection key -> host the connection was opened for
    event,            \* self.event (the serve loop's gate)
    remote,           \* per host: the daemons the helper's `ls` reports there
    mgr_map,          \* the cluster's manager map: [active_name, standbys]
    mon_map,          \* the cluster's monitor map: the set of monitor names
    health_checks,    \* self.health_checks: name -> [count, detail]
    last,             \* the operation that ran last: [op, arg, input, repeat, result, effects]
    hist,             \* what came before it: the pre-state of an add_host of a new
                      \* host, the spec of an apply that succeeded
    ops,              \* the number of service commands issued so far
    ret,              \* what the function applied last returned
    upgrade_state,    \* self.upgrade_state: None or [target_name, target_id, ...]
    store_upgrade_state, \* the persisted 'upgrade_state' blob: [set, blob]
    config,           \* the cluster's container_image settings: section -> image name
    images,           \* per host: the id of the target image held there, or None
    registry,         \* the id the target image name resolves to when pulled
    chains,           \* the chains of completions that were built: each its links
                      \* and what happened to them
    _worker_pool,     \* self._worker_pool: [queue, running, closed, joined], with
                      \* the do_work that runs, if one does, in `running`
    run,              \* self.run
    serving           \* the loop of serve has not returned

vars == <<inventory, store_inventory, inventory_cache, daemon_cache, host_order, cons,
          event, remote, mgr_map, mon_map, health_checks, last, hist, ops, ret, upgrade_state,
          store_upgrade_state, config, images, registry, chains, _worker_pool, run,
          serving>>

\* the upgrade's variables
upvars == <<upgrade_state, store_upgrade_state, config, images, registry>>

\* the variables of the completions, the pool and the loop of serve
pipevars == <<chains, _worker_pool, run, serving>>

\* Python's None
NoneVal == "None"

\* self._worker_pool after multiprocessing.pool.ThreadPool(1)
IdlePool == [queue |-> <<>>, running |-> <<>>, closed |-> FALSE, joined |-> FALSE]

\* an engine that runs, with no completion built yet
NoPipeline ==
    /\ chains = <<>>
    /\ _worker_pool = IdlePool
    /\ run = TRUE
    /\ serving = TRUE

(***************************************************************************)
(* Host names.  A name is known to the model by its character structure:    *)
(* the lengths of its '.'-separated parts and whether each part matches     *)
(* the pattern ^[a-zA-Z0-9-]+$.                                             *)
(***************************************************************************)
ValidNames == {"h1", "h2"}

InvalidNames == {"bad host", "a..b", "x251", "p64.h"}

Names == ValidNames \cup InvalidNames

\* name.split('.') as a sequence of [len, match]
NameParts(name) ==
    CASE name = "bad host" -> << [len |-> 8, match |-> FALSE] >>
      [] name = "a..b"     -> << [len |-> 1, match |-> TRUE],
                                 [len |-> 0, match |-> FALSE],
                                 [len |-> 1, match |-> TRUE] >>
      [] name = "x251"     -> << [len |-> 251, match |-> TRUE] >>
      [] name = "p64.h"    -> << [len |-> 64, match |-> TRUE],
                                 [len |-> 1, match |-> TRUE] >>
      [] OTHER             -> << [len |-> 2, match |-> TRUE] >>

RECURSIVE SumLen(_)
SumLen(parts) ==
    IF parts = <<>> THEN 0 ELSE Head(parts).len + SumLen(Tail(parts))

\* len(name): the parts plus the dots between them
NameLen(name) == SumLen(NameParts(name)) + Len(NameParts(name)) - 1

MaxNameLen == 250

MaxPartLen == 63

\* the validation without the check of the characters
assert_valid_host_any_char(name) ==
    /\ NameLen(name) <= MaxNameLen
    /\ \A i \in 1..Len(NameParts(name)) :
          /\ NameParts(name)[i].len > 0
          /\ NameParts(name)[i].len <= MaxPartLen

\* assert_valid_host: TRUE iff no assertion fails
assert_valid_host(name) ==
    /\ NameLen(name) <= MaxNameLen
    /\ \A i \in 1..Len(NameParts(name)) :
          /\ NameParts(name)[i].len > 0
          /\ NameParts(name)[i].len <= MaxPartLen
          /\ NameParts(name)[i].match

\* addresses a user may give for a host; NoneVal: no address given
Addrs == {NoneVal, "a1"}

Labels == {"l1"}

\* HostSpec(hostname, addr, labels): addr defaults to the hostname
HostSpec(hostname, addr, labels) ==
    [hostname |-> hostname,
     addr     |-> IF addr = NoneVal THEN hostname ELSE addr,
     labels   |-> labels]

(***************************************************************************)
(* JSON blobs: an object is a set of <<key, value>> pairs.                  *)
(***************************************************************************)
json_dumps(d) == { <<k, d[k]>> : k \in DOMAIN d }

json_loads(blob) ==
    [k \in { p[1] : p \in blob } |-> (CHOOSE p \in blob : p[1] = k)[2]]

(***************************************************************************)
(* Outdatable cache (orchestrator.OutdatableData / OutdatablePersistentDict)*)
(***************************************************************************)
\* OutdatableData(): no data, never refreshed
OutdatableDataEmpty == [data |-> <<>>, has_data |-> FALSE, last_refresh |-> NoneVal]

\* OutdatableData(data): data stamped with the time of its refresh
OutdatableData(data) == [data |-> data, has_data |-> TRUE, last_refresh |-> "recent"]

\* OutdatablePersistentDict.invalidate: clears last_refresh
invalidate(cache, host) ==
    IF host \in DOMAIN cache
    THEN [cache EXCEPT ![host].last_refresh = NoneVal]
    ELSE cache

\* OutdatableData.outdated(timeout)
outdated(entry) == entry.last_refresh = NoneVal \/ entry.last_refresh = "old"

EmptyDict == [x \in {} |-> NoneVal]

\* d[k] = v
DictSet(d, k, v) == (k :> v) @@ d

\* del d[k]
DictDel(d, k) == [x \in DOMAIN d \ {k} |-> d[x]]

(***************************************************************************)
(* Remote executor                                                         *)
(***************************************************************************)
\* what a remote execution can come to
Outcomes == {"ok", "exit", "transport"}

NoName == [daemon_type |-> "", daemon_id |-> <<>>]

\* something an operation did that is visible outside it
Effect(kind, host, name) ==
    [kind |-> kind, host |-> host, name |-> name, code |-> 0]

\* a run of the helper on a host and its exit code
RunEffect(command, host, name, code) ==
    [kind |-> command, host |-> host, name |-> name, code |-> code]

\* _get_connection(host): reuse the connection cached under the key or open one
_get_connection(cs, key, host) ==
    IF key \in DOMAIN cs THEN cs ELSE DictSet(cs, key, host)

\* _reset_con(host)
_reset_con(cs, host) ==
    IF host \in DOMAIN cs THEN DictDel(cs, host) ELSE cs

\* _run_cephadm(host, ..., addr, error_ok): the connection table afterwards,
\* whether it raised, and the exit code
_run_cephadm(cs, inv, host, addr, command, name, outcome, error_ok) ==
    LET a   == IF addr = NoneVal /\ host \in DOMAIN inv
               THEN inv[host].addr ELSE addr
        cs1 == _get_connection(cs, a, host)
    IN  CASE outcome = "transport" ->
               [cons |-> _reset_con(cs1, host), raised |-> ~error_ok, code |-> 1,
                effects |-> <<RunEffect(command, host, name, 1),
                              Effect("transport_error", host, NoName)>>]
          [] outcome = "exit" ->
               [cons |-> cs1, raised |-> ~error_ok, code |-> 1,
                effects |-> <<RunEffect(command, host, name, 1)>>]
          [] OTHER ->
               [cons |-> cs1, raised |-> FALSE, code |-> 0,
                effects |-> <<RunEffect(command, host, name, 0)>>]

(***************************************************************************)
(* Engine start                                                            *)
(***************************************************************************)
\* inventories the store may hold at start
NotStored == [set |-> FALSE, blob |-> {}]

Stored(blob) == [set |-> TRUE, blob |-> blob]

StoredInventories ==
    { {},
      json_dumps(("h1" :> [addr |-> "h1", labels |-> <<>>])),
      json_dumps(("h1" :> [addr |-> "a1", labels |-> <<"l1">>])),
      json_dumps(("h1" :> [addr |-> "h1", labels |-> <<>>]) @@
                 ("h2" :> [addr |-> "h2", labels |-> <<>>])) }

\* a save that writes the inventory as it was before the change
_save_inventory_before_change(inv) == Stored(json_dumps(inventory))

\* _save_inventory
_save_inventory(inv) == Stored(json_dumps(inv))

\* the sync without the loops that drop the keys of unknown hosts
SyncCacheKeepsUnknown(inv, cache) ==
    [h \in DOMAIN inv \cup DOMAIN cache |->
        IF h \in DOMAIN cache THEN cache[h] ELSE OutdatableDataEmpty]

\* __init__: "ensure the host lists are in sync"
SyncCache(inv, cache) ==
    [h \in DOMAIN inv |->
        IF h \in DOMAIN cache THEN cache[h] ELSE OutdatableDataEmpty]

\* a service spec as a command builds it:
\* ServiceSpec(placement=PlacementSpec(label, count, hosts)), spec.count the
\* placement's count, tagged with the service type of the command
ServiceSpec(service_type, count, hosts, label) ==
    [service_type |-> service_type, count |-> count, hosts |-> hosts,
     label |-> label]

NoSpec == ServiceSpec("", 0, <<>>, "")

NoHist == [host |-> "", removed |-> FALSE, pre |-> <<>>, applied |-> NoSpec]

\* the orders in which a dict's keys may be iterated
Orders(S) ==
    { s \in [1..Cardinality(S) -> S] :
        \A i, j \in 1..Cardinality(S) : i # j => s[i] # s[j] }

\* the key order after del d[k]
RECURSIVE OrderDel(_, _)
OrderDel(order, k) ==
    IF order = <<>> THEN <<>>
    ELSE IF Head(order) = k THEN Tail(order)
    ELSE <<Head(order)>> \o OrderDel(Tail(order), k)

\* the key order after d[k] = v
OrderSet(order, k) ==
    IF \E i \in 1..Len(order) : order[i] = k THEN order ELSE Append(order, k)

Snapshot == <<inventory, inventory_cache, daemon_cache, cons>>

\* the hosts a model run may know
AllHosts == {"h1", "h2", "h3", "h4"}

\* self.upgrade_state; `active` FALSE is None, a key that is not set is None
\* or FALSE
NoUpgrade ==
    [active |-> FALSE, target_name |-> NoneVal, target_id |-> NoneVal,
     paused |-> FALSE, error |-> NoneVal, image_id |-> NoneVal]

\* the image daemons run when no container_image setting names another
BaseImage == "base"

\* a cluster on which no upgrade was ever started
NoUpgradeInit ==
    /\ upgrade_state = NoUpgrade
    /\ store_upgrade_state = NotStored
    /\ config = EmptyDict
    /\ images = [h \in AllHosts |-> NoneVal]
    /\ registry = "B"

InitHost ==
    /\ \E blob \in StoredInventories :
          /\ store_inventory = IF blob = {} THEN NotStored ELSE Stored(blob)
          /\ inventory = IF blob = {} THEN EmptyDict ELSE json_loads(blob)
    /\ \E ks \in SUBSET ValidNames :
          inventory_cache = SyncCache(inventory, [h \in ks |-> OutdatableDataEmpty])
    /\ \E ks \in SUBSET ValidNames :
          daemon_cache = SyncCache(inventory, [h \in ks |-> OutdatableDataEmpty])
    /\ host_order \in Orders(DOMAIN inventory)
    /\ cons = EmptyDict
    /\ health_checks = EmptyDict
    /\ event = TRUE
    /\ remote = [h \in AllHosts |-> <<>>]
    /\ mgr_map = [active_name |-> <<>>, standbys |-> {}]
    /\ mon_map = {}
    /\ last = [op |-> "init", arg |-> "", input |-> NoSpec, repeat |-> FALSE,
               result |-> "ok", effects |-> <<>>]
    /\ hist = NoHist
    /\ ops = 0
    /\ ret = <<>>
    /\ NoUpgradeInit
    /\ NoPipeline

(***************************************************************************)
(* Host operations                                                         *)
(***************************************************************************)
Done(op, arg, result, effects) ==
    /\ last' = [op |-> op, arg |-> arg, input |-> NoSpec, repeat |-> FALSE,
                result |-> result, effects |-> effects]
    /\ UNCHANGED <<ops, ret, upvars, pipevars>>

\* add_host(spec)
AddHost(hostname, addr, labels, outcome) ==
    LET spec == HostSpec(hostname, addr, labels)
        r    == _run_cephadm(cons, inventory, spec.hostname, spec.addr,
                             "check-host", NoName, outcome, TRUE)
    IN  IF ~assert_valid_host(spec.hostname)
        THEN /\ Done("add_host", hostname, "OrchestratorError", <<>>)
             /\ hist' = NoHist
             /\ UNCHANGED <<inventory, store_inventory, inventory_cache,
                            daemon_cache, host_order, cons, event, remote, mgr_map,
                            mon_map, health_checks>>
        ELSE IF r.raised \/ r.code # 0
        THEN /\ cons' = r.cons
             /\ Done("add_host", hostname,
                     IF r.raised THEN "RuntimeError" ELSE "OrchestratorError",
                     r.effects)
             /\ hist' = NoHist
             /\ UNCHANGED <<inventory, store_inventory, inventory_cache,
                            daemon_cache, host_order, event, remote, mgr_map,
                            mon_map, health_checks>>
        ELSE /\ cons' = r.cons
             /\ inventory' = DictSet(inventory, spec.hostname,
                                     [addr |-> spec.addr, labels |-> spec.labels])
             /\ store_inventory' = _save_inventory(inventory')
             /\ inventory_cache' = DictSet(inventory_cache, spec.hostname,
                                           OutdatableDataEmpty)
             /\ daemon_cache' = DictSet(daemon_cache, spec.hostname,
                                        OutdatableDataEmpty)
             /\ host_order' = OrderSet(host_order, spec.hostname)
             /\ event' = TRUE
             /\ Done("add_host", hostname, "ok",
                     r.effects \o <<Effect("save_inventory", hostname, NoName),
                                    Effect("event_set", hostname, NoName)>>)
             /\ hist' = IF hostname \in DOMAIN inventory THEN NoHist
                        ELSE [NoHist EXCEPT !.host = hostname, !.pre = Snapshot]
             /\ UNCHANGED <<remote, mgr_map, mon_map, health_checks>>

\* remove_host(host)
RemoveHost(host) ==
    IF host \notin DOMAIN inventory
    THEN /\ Done("remove_host", host, "KeyError", <<>>)
         /\ hist' = NoHist
         /\ UNCHANGED <<inventory, store_inventory, inventory_cache, daemon_cache,
                        host_order, cons, event, remote, mgr_map, mon_map,
                        health_checks>>
    ELSE /\ inventory' = DictDel(inventory, host)
         /\ host_order' = OrderDel(host_order, host)
         /\ store_inventory' = _save_inventory(inventory')
         /\ IF host \notin DOMAIN inventory_cache
            THEN /\ Done("remove_host", host, "KeyError",
                         <<Effect("save_inventory", host, NoName)>>)
                 /\ UNCHANGED <<inventory_cache, daemon_cache, cons, event>>
            ELSE /\ inventory_cache' = DictDel(inventory_cache, host)
                 /\ IF host \notin DOMAIN daemon_cache
                    THEN /\ Done("remove_host", host, "KeyError",
                                 <<Effect("save_inventory", host, NoName)>>)
                         /\ UNCHANGED <<daemon_cache, cons, event>>
                    ELSE /\ daemon_cache' = DictDel(daemon_cache, host)
                         /\ cons' = _reset_con(cons, host)
                         /\ event' = TRUE
                         /\ Done("remove_host", host, "ok",
                                 <<Effect("save_inventory", host, NoName),
                                   Effect("event_set", host, NoName)>>)
         /\ hist' = IF hist.host = host /\ ~hist.removed /\ last'.result = "ok"
                    THEN [hist EXCEPT !.removed = TRUE]
                    ELSE NoHist
         /\ UNCHANGED <<remote, mgr_map, mon_map, health_checks>>

\* update_host_addr(host, addr)
UpdateHostAddr(host, addr) ==
    /\ IF host \notin DOMAIN inventory
       THEN /\ Done("update_host_addr", host, "OrchestratorError", <<>>)
            /\ UNCHANGED <<inventory, store_inventory, cons, event>>
       ELSE /\ inventory' = [inventory EXCEPT ![host].addr = addr]
            /\ store_inventory' = _save_inventory(inventory')
            /\ cons' = _reset_con(cons, host)
            /\ event' = TRUE
            /\ Done("update_host_addr", host, "ok",
                    <<Effect("save_inventory", host, NoName),
                      Effect("event_set", host, NoName)>>)
    /\ hist' = NoHist
    /\ UNCHANGED <<inventory_cache, daemon_cache, host_order, remote, mgr_map,
                   mon_map, health_checks>>

\* label in labels
InList(x, list) == \E i \in 1..Len(list) : list[i] = x

\* list.remove(x): drops the first occurrence
RECURSIVE ListRemove(_, _)
ListRemove(list, x) ==
    IF list = <<>> THEN <<>>
    ELSE IF Head(list) = x THEN Tail(list)
    ELSE <<Head(list)>> \o ListRemove(Tail(list), x)

\* add_host_label(host, label)
AddHostLabel(host, label) ==
    /\ IF host \notin DOMAIN inventory
       THEN /\ Done("add_host_label", host, "OrchestratorError", <<>>)
            /\ UNCHANGED <<inventory, store_inventory>>
       ELSE /\ inventory' =
                  IF InList(label, inventory[host].labels) THEN inventory
                  ELSE [inventory EXCEPT ![host].labels = Append(@, label)]
            /\ store_inventory' = _save_inventory(inventory')
            /\ Done("add_host_label", host, "ok",
                    <<Effect("save_inventory", host, NoName)>>)
    /\ hist' = NoHist
    /\ UNCHANGED <<inventory_cache, daemon_cache, host_order, cons, event, remote,
                   mgr_map, mon_map, health_checks>>

\* remove_host_label(host, label)
RemoveHostLabel(host, label) ==
    /\ IF host \notin DOMAIN inventory
       THEN /\ Done("remove_host_label", host, "OrchestratorError", <<>>)
            /\ UNCHANGED <<inventory, store_inventory>>
       ELSE /\ inventory' =
                  IF InList(label, inventory[host].labels)
                  THEN [inventory EXCEPT ![host].labels = ListRemove(@, label)]
                  ELSE inventory
            /\ store_inventory' = _save_inventory(inventory')
            /\ Done("remove_host_label", host, "ok",
                    <<Effect("save_inventory", host, NoName)>>)
    /\ hist' = NoHist
    /\ UNCHANGED <<inventory_cache, daemon_cache, host_order, cons, event, remote,
                   mgr_map, mon_map, health_checks>>

(***************************************************************************)
(* Serve loop steps                                                        *)
(***************************************************************************)
warn_on_failed_host_check == TRUE

\* the loop of _check_hosts over the inventory
RECURSIVE CheckHostsLoop(_, _, _, _, _)
CheckHostsLoop(order, outs, cs, bad, effects) ==
    IF order = <<>>
    THEN [cons |-> cs, bad |-> bad, effects |-> effects]
    ELSE LET h == Head(order)
             r == _run_cephadm(cs, inventory, h, NoneVal, "check-host", NoName,
                               outs[h], TRUE)
             failed == r.raised \/ (r.code # 0 /\ warn_on_failed_host_check)
         IN  CheckHostsLoop(Tail(order), outs, r.cons,
                            IF failed THEN bad \cup {h} ELSE bad,
                            effects \o r.effects)

\* _check_hosts
ServeCheckHosts(outs) ==
    LET r == CheckHostsLoop(host_order, outs, cons, {}, <<>>)
        cleared == DictDel(health_checks, "CEPHADM_HOST_CHECK_FAILED")
    IN  /\ cons' = r.cons
        /\ health_checks' =
              IF r.bad # {}
              THEN DictSet(cleared, "CEPHADM_HOST_CHECK_FAILED",
                           [count |-> Cardinality(r.bad), detail |-> r.bad])
              ELSE cleared
        /\ Done("_check_hosts", "", "ok", r.effects)
        /\ hist' = NoHist
        /\ UNCHANGED <<inventory, store_inventory, inventory_cache, daemon_cache,
                       host_order, event, remote, mgr_map, mon_map>>

\* _serve_sleep: wait on the gate, then clear it
ServeSleep ==
    /\ event' = FALSE
    /\ Done("_serve_sleep", "", "ok", <<>>)
    /\ hist' = NoHist
    /\ UNCHANGED <<inventory, store_inventory, inventory_cache, daemon_cache,
                   host_order, cons, remote, mgr_map, mon_map, health_checks>>

\* label lists a user may give with `host add`
LabelLists == {<<>>, <<"l1">>}

NextHost ==
    \/ \E n \in ValidNames, a \in Addrs, ls \in LabelLists, o \in Outcomes :
          AddHost(n, a, ls, o)
    \/ \E n \in InvalidNames : AddHost(n, NoneVal, <<>>, "ok")
    \/ \E h \in ValidNames : RemoveHost(h)
    \/ \E h \in ValidNames : \E a \in (Addrs \ {NoneVal}) \cup {h} : UpdateHostAddr(h, a)
    \/ \E h \in ValidNames, l \in Labels : AddHostLabel(h, l)
    \/ \E h \in ValidNames, l \in Labels : RemoveHostLabel(h, l)
    \/ \E outs \in [DOMAIN inventory -> Outcomes] : ServeCheckHosts(outs)
    \/ ServeSleep

SpecHost == InitHost /\ [][NextHost]_vars

(***************************************************************************)
(* Daemons                                                                 *)
(***************************************************************************)
_cluster_fsid == "fsid"

\* an entry of the helper's `ls` output
DaemonDict(daemon_type, daemon_id, image_id) ==
    [name |-> [daemon_type |-> daemon_type, daemon_id |-> daemon_id],
     style |-> "cephadm:v1", fsid |-> _cluster_fsid,
     container_image_id |-> image_id, state |-> "running"]

\* the entry _get_daemons serves for a host that was never refreshed: '*.*'
SyntheticDict ==
    [name |-> [daemon_type |-> "*", daemon_id |-> <<"*">>],
     style |-> "cephadm:v1", fsid |-> _cluster_fsid,
     container_image_id |-> NoneVal, state |-> NoneVal]

\* the entry _create_daemon primes the cache with
PrimedDict(daemon_type, daemon_id) ==
    [name |-> [daemon_type |-> daemon_type, daemon_id |-> daemon_id],
     style |-> "cephadm:v1", fsid |-> _cluster_fsid,
     container_image_id |-> NoneVal, state |-> "running"]

\* str.startswith(prefix + '.') on a daemon id, the prefix a single part
StartsWithPart(daemon_id, prefix) ==
    Len(daemon_id) > 1 /\ daemon_id[1] = prefix

\* the per-host lists _get_daemons works on when no refresh is asked for
CachedList(cache, host) ==
    IF cache[host].last_refresh = NoneVal THEN <<SyntheticDict>>
    ELSE cache[host].data

\* _get_daemons_result: the DaemonDescriptions of one host's list
HostDaemons(ls, host, daemon_type, service_name) ==
    LET keep(d) ==
            /\ d.style = "cephadm:v1"
            /\ d.fsid = _cluster_fsid
            /\ (daemon_type # "" => d.name.daemon_type = daemon_type)
            /\ (service_name # "" => StartsWithPart(d.name.daemon_id, service_name))
        kept == SelectSeq(ls, keep)
    IN  [i \in 1..Len(kept) |->
            [daemon_type |-> kept[i].name.daemon_type,
             daemon_id |-> kept[i].name.daemon_id,
             nodename |-> host,
             container_image_id |-> kept[i].container_image_id]]

\* _get_daemons(daemon_type, service_name) with refresh=False
RECURSIVE _get_daemons(_, _, _, _)
_get_daemons(cache, order, daemon_type, service_name) ==
    IF order = <<>> THEN <<>>
    ELSE HostDaemons(CachedList(cache, Head(order)), Head(order),
                     daemon_type, service_name)
         \o _get_daemons(cache, Tail(order), daemon_type, service_name)

\* the random tags get_unique_name may draw
Tags == {"t1", "t2"}

IdInUse(existing, daemon_id) ==
    \E i \in 1..Len(existing) : existing[i].daemon_id = daemon_id

\* host.split('.')[0]
ShortHost(host) == IF host = "h1.dom" THEN "h1" ELSE host

\* the name made of a prefix, the host and a drawn tag
DrawnName(host, prefix, tag) ==
    IF prefix # "" THEN <<prefix, ShortHost(host), tag>>
    ELSE <<ShortHost(host), tag>>

\* a generator that returns the forced name or its first draw without a
\* look at the existing daemons
get_unique_name_first_draw(host, existing, prefix, forcename, draws) ==
    IF forcename # <<>> THEN forcename
    ELSE DrawnName(host, prefix, Head(draws))

\* get_unique_name(host, existing, prefix, forcename) when the random draws
\* are `draws`, in this order; <<>> when a forced name is in use
RECURSIVE get_unique_name(_, _, _, _, _)
get_unique_name(host, existing, prefix, forcename, draws) ==
    IF forcename # <<>>
    THEN IF IdInUse(existing, forcename) THEN <<>> ELSE forcename
    ELSE IF IdInUse(existing, DrawnName(host, prefix, Head(draws)))
    THEN get_unique_name(host, existing, prefix, forcename, Tail(draws))
    ELSE DrawnName(host, prefix, Head(draws))

\* the random draws that let get_unique_name return
DrawsFor(host, existing, prefix) ==
    { ds \in Orders(Tags) :
        \E i \in 1..Len(ds) : ~IdInUse(existing, DrawnName(host, prefix, ds[i])) }

(***************************************************************************)
(* The state a chain of daemon operations works on                         *)
(***************************************************************************)
Engine ==
    [cons |-> cons, daemon_cache |-> daemon_cache, remote |-> remote,
     mgr_map |-> mgr_map, mon_map |-> mon_map, event |-> event,
     config |-> config, images |-> images, registry |-> registry,
     effects |-> <<>>, failed |-> FALSE]

\* a section of the cluster configuration: a daemon, a daemon type or global
Section(daemon_type, daemon_id) == [daemon_type |-> daemon_type, daemon_id |-> daemon_id]

\* `config get container_image` for a daemon: its own setting, else its
\* type's, else the global one, else the default
ContainerImage(cfg, name) ==
    IF name \in DOMAIN cfg THEN cfg[name]
    ELSE IF Section(name.daemon_type, <<>>) \in DOMAIN cfg
    THEN cfg[Section(name.daemon_type, <<>>)]
    ELSE IF Section("global", <<>>) \in DOMAIN cfg
    THEN cfg[Section("global", <<>>)]
    ELSE BaseImage

\* the id of the image a daemon deployed on a host runs: the base image is
\* "A" on every host, the target image is what the host holds of it or, when
\* it holds nothing, what the registry serves
DeployedImageId(st, name, host) ==
    IF ContainerImage(st.config, name) = BaseImage THEN "A"
    ELSE IF st.images[host] # NoneVal THEN st.images[host]
    ELSE st.registry

HasDaemon(ls, name) == \E i \in 1..Len(ls) : ls[i].name = name

\* a list that keeps the records of the name
AllDaemons(ls, name) == ls

\* [d for d in data if d['name'] != name]
WithoutDaemon(ls, name) == SelectSeq(ls, LAMBDA d : d.name # name)

\* what the cluster sees once a daemon runs: a manager joins the manager map,
\* a monitor the monitor map
Joined(st, name) ==
    [st EXCEPT
       !.mgr_map = IF name.daemon_type # "mgr" THEN @
                   ELSE IF @.active_name = <<>>
                   THEN [@ EXCEPT !.active_name = name.daemon_id]
                   ELSE IF @.active_name = name.daemon_id THEN @
                   ELSE [@ EXCEPT !.standbys = @ \cup {name.daemon_id}],
       !.mon_map = IF name.daemon_type = "mon" THEN @ \cup {name.daemon_id} ELSE @]

\* what the cluster sees once a daemon is gone
Left(st, name) ==
    [st EXCEPT
       !.mgr_map = IF name.daemon_type # "mgr" THEN @
                   ELSE [active_name |-> IF @.active_name = name.daemon_id
                                         THEN <<>> ELSE @.active_name,
                         standbys |-> @.standbys \ {name.daemon_id}],
       !.mon_map = IF name.daemon_type = "mon" THEN @ \ {name.daemon_id} ELSE @]

\* _create_daemon(daemon_type, daemon_id, host)
_create_daemon(st, daemon_type, daemon_id, host, outcome) ==
    LET name == [daemon_type |-> daemon_type, daemon_id |-> daemon_id]
        r    == _run_cephadm(st.cons, inventory, host, NoneVal, "deploy", name,
                             outcome, FALSE)
        data == st.daemon_cache[host].data
        primed == IF host \in DOMAIN st.daemon_cache
                  THEN [st.daemon_cache EXCEPT ![host] =
                          OutdatableData(Append(WithoutDaemon(data, name),
                                                PrimedDict(daemon_type, daemon_id)))]
                  ELSE st.daemon_cache
    IN  IF r.raised
        THEN [st EXCEPT !.cons = r.cons, !.effects = @ \o r.effects,
                        !.failed = TRUE]
        ELSE Joined([st EXCEPT
               !.cons = r.cons,
               !.remote[host] = Append(WithoutDaemon(@, name),
                                       DaemonDict(daemon_type, daemon_id,
                                                  DeployedImageId(st, name, host))),
               !.daemon_cache = invalidate(primed, host),
               !.event = TRUE,
               !.effects = @ \o r.effects \o <<Effect("event_set", host, name)>>],
             name)

\* _remove_daemon(name, host)
_remove_daemon(st, name, host, outcome) ==
    LET r == _run_cephadm(st.cons, inventory, host, NoneVal, "rm-daemon", name,
                          outcome, FALSE)
        data == st.daemon_cache[host].data
        dropped == IF host \in DOMAIN st.daemon_cache /\ data # <<>>
                   THEN [st.daemon_cache EXCEPT ![host] =
                           OutdatableData(WithoutDaemon(data, name))]
                   ELSE st.daemon_cache
    IN  IF r.raised
        THEN [st EXCEPT !.cons = r.cons, !.effects = @ \o r.effects,
                        !.failed = TRUE]
        ELSE Left([st EXCEPT
               !.cons = r.cons,
               !.remote[host] = WithoutDaemon(@, name),
               !.daemon_cache = invalidate(dropped, host),
               !.effects = @ \o r.effects],
             name)

\* an async map of _create_daemon over (daemon_type, daemon_id, host) tuples:
\* every element runs, also after one has failed
RECURSIVE CreateAll(_, _, _)
CreateAll(st, args, outs) ==
    IF args = <<>> THEN st
    ELSE CreateAll(_create_daemon(st, Head(args).daemon_type, Head(args).daemon_id,
                                  Head(args).host, outs[Head(args).host]),
                   Tail(args), outs)

\* an async map of _remove_daemon over (name, host) tuples
RECURSIVE RemoveAll(_, _, _)
RemoveAll(st, args, outs) ==
    IF args = <<>> THEN st
    ELSE RemoveAll(_remove_daemon(st, Head(args).name, Head(args).host,
                                  outs[Head(args).host]),
                   Tail(args), outs)

\* the engine state after a chain, and what the chain came to
Commit(st, op, arg, spec, result) ==
    /\ cons' = st.cons
    /\ daemon_cache' = st.daemon_cache
    /\ remote' = st.remote
    /\ mgr_map' = st.mgr_map
    /\ mon_map' = st.mon_map
    /\ event' = st.event
    /\ ops' = ops + 1
    /\ last' = [op |-> op, arg |-> arg, input |-> spec,
                repeat |-> (hist.applied = spec /\ spec # NoSpec),
                result |-> IF result = "ok" /\ st.failed THEN "RuntimeError"
                           ELSE result,
                effects |-> st.effects]
    /\ UNCHANGED <<inventory, store_inventory, inventory_cache, host_order,
                   health_checks, ret, upvars, pipevars>>

(***************************************************************************)
(* Placement                                                               *)
(***************************************************************************)
HostPlacementSpec(hostname, network, name) ==
    [hostname |-> hostname, network |-> network, name |-> name]

FirstN(seq, n) == SubSeq(seq, 1, IF n < Len(seq) THEN n ELSE Len(seq))

\* SimpleScheduler.place(host_pool, count) when the shuffle yields `shuffled`
SimpleSchedulerPlace(shuffled, count) ==
    [i \in 1..Len(FirstN(shuffled, count)) |->
        HostPlacementSpec(shuffled[i], "", <<>>)]

\* NodeAssignment.load(): the spec with its placement resolved, or the error
\* raised; `pool` is what get_hosts_func() yields
NodeAssignmentLoad(spec, pool, shuffled) ==
    LET labeled == IF spec.label # ""
                   THEN [spec EXCEPT !.hosts =
                           [i \in 1..Len(pool) |->
                               HostPlacementSpec(pool[i], "", <<>>)]]
                   ELSE spec
    IN  IF labeled.label = "" /\ labeled.hosts = <<>> /\ labeled.count # 0
        THEN IF pool = <<>>
             THEN [spec |-> labeled, error |-> "Exception"]
             ELSE IF Len(SimpleSchedulerPlace(shuffled, labeled.count)) # labeled.count
             THEN [spec |-> labeled, error |-> "OrchestratorValidationError"]
             ELSE [spec |-> [labeled EXCEPT !.hosts =
                               SimpleSchedulerPlace(shuffled, labeled.count)],
                   error |-> ""]
        ELSE [spec |-> labeled, error |-> ""]

\* _require_hosts for every host of the placement
AllRegistered(hosts) ==
    \A i \in 1..Len(hosts) : hosts[i].hostname \in DOMAIN inventory_cache

\* a requested daemon name that a daemon already has
NameTaken(hosts, daemons) ==
    \E i \in 1..Len(hosts) :
       hosts[i].name # <<>> /\ IdInUse(daemons, hosts[i].name)

(***************************************************************************)
(* apply mgr                                                               *)
(***************************************************************************)
\* apply_mgr: the managers the cluster is connected to
Connected(mm) ==
    (IF mm.active_name # <<>> THEN {mm.active_name} ELSE {}) \cup mm.standbys

\* apply_mgr: the (name, host) tuples handed to _remove_daemon
MgrVictims(daemons, mm, num_to_remove) ==
    LET unconnected == SelectSeq(daemons, LAMBDA d : d.daemon_id \notin Connected(mm))
        first == FirstN(unconnected, num_to_remove)
        rest  == IF num_to_remove - Len(first) > 0
                 THEN FirstN(daemons, num_to_remove - Len(first))
                 ELSE <<>>
        both  == first \o rest
    IN  [i \in 1..Len(both) |->
            [name |-> [daemon_type |-> both[i].daemon_type,
                       daemon_id |-> both[i].daemon_id],
             host |-> both[i].nodename]]

\* apply_mgr: the (name, host) tuples handed to _create_mgr
MgrCreateArgs(hosts, daemons, draws) ==
    [i \in 1..Len(hosts) |->
        [daemon_type |-> "mgr",
         daemon_id |-> IF hosts[i].name # <<>> THEN hosts[i].name
                       ELSE get_unique_name(hosts[i].hostname, daemons, "", <<>>, draws),
         host |-> hosts[i].hostname]]

\* get_unique_name returns for every host of the placement
CanDraw(hosts, daemons, draws) ==
    \A i \in 1..Len(hosts) :
       hosts[i].name = <<>> => draws \in DrawsFor(hosts[i].hostname, daemons, "")

Applied(spec) ==
    hist' = IF last'.result = "ok" THEN [NoHist EXCEPT !.applied = spec]
            ELSE NoHist

\* apply_mgr(spec)
ApplyMgr(spec, shuffled, draws, outs) ==
    LET daemons  == _get_daemons(daemon_cache, host_order, "mgr", "")
        na       == NodeAssignmentLoad(spec, host_order, shuffled)
        hosts    == na.spec.hosts
        num_mgrs == Len(daemons)
    IN  /\ IF na.error # ""
           THEN Commit(Engine, "apply_mgr", "", spec, na.error)
           ELSE IF spec.count = num_mgrs
           THEN Commit(Engine, "apply_mgr", "", spec, "ok")
           ELSE IF ~AllRegistered(hosts)
           THEN Commit(Engine, "apply_mgr", "", spec, "RuntimeError")
           ELSE IF spec.count < num_mgrs
           THEN Commit(RemoveAll(Engine,
                                 MgrVictims(daemons, mgr_map, num_mgrs - spec.count),
                                 outs),
                       "apply_mgr", "", spec, "ok")
           ELSE IF Len(hosts) < spec.count - num_mgrs \/ NameTaken(hosts, daemons)
           THEN Commit(Engine, "apply_mgr", "", spec, "RuntimeError")
           ELSE /\ CanDraw(hosts, daemons, draws)
                /\ Commit(CreateAll(Engine, MgrCreateArgs(hosts, daemons, draws), outs),
                          "apply_mgr", "", spec, "ok")
        /\ Applied(spec)

(***************************************************************************)
(* apply mon                                                               *)
(***************************************************************************)
\* _create_mon: a CIDR network, an addrvec or a plain IP
NetworkOk(network) == network \in {"10.0.0.0/24", "[v2:10.0.0.1:3300]", "10.0.0.1"}

MissingNetwork(hosts) == \E i \in 1..Len(hosts) : hosts[i].network = ""

\* _create_mon over the placement: name = name or host; an element whose
\* network is none of the three forms raises before it deploys
RECURSIVE CreateMons(_, _, _)
CreateMons(st, hosts, outs) ==
    IF hosts = <<>> THEN st
    ELSE LET h == Head(hosts)
             id == IF h.name # <<>> THEN h.name ELSE <<h.hostname>>
         IN  CreateMons(IF NetworkOk(h.network)
                        THEN _create_daemon(st, "mon", id, h.hostname, outs[h.hostname])
                        ELSE [st EXCEPT !.failed = TRUE],
                        Tail(hosts), outs)

\* the check of the requested count against the monitor map that lets a
\* scale-down through
UpdateMonsCount_no_guard(count, num_mons) ==
    IF count = num_mons THEN "equal" ELSE "more"

\* _update_mons: the requested count against the monitor map
UpdateMonsCount(count, num_mons) ==
    IF count = num_mons THEN "equal"
    ELSE IF count < num_mons THEN "less"
    ELSE "more"

\* apply_mon(spec)
ApplyMon(spec, shuffled, outs) ==
    LET na       == NodeAssignmentLoad(spec, host_order, shuffled)
        hosts    == na.spec.hosts
        num_mons == Cardinality(mon_map)
        daemons  == _get_daemons(daemon_cache, host_order, "mon", "")
        cmp      == UpdateMonsCount(spec.count, num_mons)
    IN  /\ IF spec.hosts = <<>> /\ spec.label = ""
           THEN Commit(Engine, "apply_mon", "", spec, "OrchestratorValidationError")
           ELSE IF na.error # ""
           THEN Commit(Engine, "apply_mon", "", spec, na.error)
           ELSE IF cmp = "equal"
           THEN Commit(Engine, "apply_mon", "", spec, "ok")
           ELSE IF cmp = "less"
           THEN Commit(Engine, "apply_mon", "", spec, "NotImplementedError")
           ELSE IF ~AllRegistered(hosts) \/ MissingNetwork(hosts)
           THEN Commit(Engine, "apply_mon", "", spec, "RuntimeError")
           ELSE IF NameTaken(hosts, daemons) \/ Len(hosts) < spec.count - num_mons
           THEN Commit(Engine, "apply_mon", "", spec, "RuntimeError")
           ELSE Commit(CreateMons(Engine, hosts, outs), "apply_mon", "", spec, "ok")
        /\ Applied(spec)

(***************************************************************************)
(* orch rm                                                                 *)
(***************************************************************************)
\* remove_service: the (name, host) tuples handed to _remove_daemon
ServiceVictims(daemons, service_type, service_name) ==
    LET sel == SelectSeq(daemons,
                 LAMBDA d : /\ d.daemon_type = service_type
                            /\ (service_name # "" =>
                                  StartsWithPart(d.daemon_id, service_name)))
    IN  [i \in 1..Len(sel) |->
            [name |-> [daemon_type |-> sel[i].daemon_type,
                       daemon_id |-> sel[i].daemon_id],
             host |-> sel[i].nodename]]

\* name.split('.') of what `orch rm` is given
Split(name) ==
    CASE name = "mgr.h1"   -> <<"mgr", "h1">>
      [] name = "mon.h1"   -> <<"mon", "h1">>
      [] name = "mds.fs"   -> <<"mds", "fs">>
      [] name = "mds.fs.x" -> <<"mds", "fs", "x">>
      [] OTHER             -> <<name>>

\* `orch rm NAME`: _service_rm and remove_service
ServiceRm(name, outs) ==
    LET service_type == Split(name)[1]
        service_name == IF Len(Split(name)) = 2 THEN Split(name)[2] ELSE ""
        daemons == _get_daemons(daemon_cache, host_order, service_type, "")
        victims == ServiceVictims(daemons, service_type, service_name)
    IN  /\ IF Len(Split(name)) > 2
           THEN Commit(Engine, "service_rm", name, NoSpec, "ValueError")
           ELSE IF name \in {"mon", "mgr"}
           THEN Commit(Engine, "service_rm", name, NoSpec, "OrchestratorError")
           ELSE IF victims = <<>>
           THEN Commit(Engine, "service_rm", name, NoSpec, "OrchestratorError")
           ELSE Commit(RemoveAll(Engine, victims, outs), "service_rm", name,
                       NoSpec, "ok")
        /\ hist' = NoHist

(***************************************************************************)
(* The serve loop's refresh of the daemon cache                            *)
(***************************************************************************)
\* the value of an expression, worked out once
Value(S) == CHOOSE x \in S : TRUE

\* _refresh_host_daemons over the hosts whose entry is outdated
RECURSIVE RefreshAll(_, _, _)
RefreshAll(st, hosts, outs) ==
    IF hosts = <<>> THEN st
    ELSE LET h == Head(hosts)
             r == _run_cephadm(st.cons, inventory, h, NoneVal, "ls", NoName,
                               outs[h], FALSE)
             after == IF r.raised
                      THEN [st EXCEPT !.cons = r.cons, !.effects = @ \o r.effects,
                                      !.failed = TRUE]
                      ELSE [st EXCEPT !.cons = r.cons, !.effects = @ \o r.effects,
                                      !.daemon_cache[h] = OutdatableData(st.remote[h])]
         IN  Value({ RefreshAll(next, Tail(hosts), outs) : next \in {after} })

\* serve: _get_daemons(maybe_refresh=True) and the health check on its result;
\* after a failure the loop sleeps and starts over
ServeRefresh(outs) ==
    LET stale == SelectSeq(host_order, LAMBDA h : outdated(daemon_cache[h]))
        st == RefreshAll(Engine, stale, outs)
    IN  /\ cons' = st.cons
        /\ daemon_cache' = st.daemon_cache
        /\ IF st.failed
           THEN /\ health_checks' = DictSet(health_checks, "CEPHADM_REFRESH_FAILED",
                                            [count |-> 1, detail |-> {}])
                /\ event' = FALSE
           ELSE /\ health_checks' = DictDel(health_checks, "CEPHADM_REFRESH_FAILED")
                /\ UNCHANGED event
        /\ last' = [op |-> "_get_daemons", arg |-> "", input |-> NoSpec,
                    repeat |-> FALSE,
                    result |-> IF st.failed THEN "RuntimeError" ELSE "ok",
                    effects |-> st.effects]
        /\ UNCHANGED <<inventory, store_inventory, inventory_cache, host_order,
                       remote, mgr_map, mon_map, hist, ops, ret, upvars, pipevars>>

(***************************************************************************)
(* A running cluster                                                       *)
(***************************************************************************)
MaxCount == 2

\* the number of service and upgrade commands a behaviour issues
MaxOps == 2

Dicts(names) == [i \in 1..Len(names) |-> DaemonDict(names[i][1], names[i][2], "A")]

NoMgr == [active_name |-> <<>>, standbys |-> {}]

\* clusters the engine may be started on: a fresh one with its bootstrap
\* monitor, one with a manager and a metadata server, and one with four
\* managers of which mgr.h1 is active, mgr.h2 and mgr.h3 are standbys and
\* mgr.h4 is not connected; `warm` tells whether the persisted daemon cache
\* holds a listing of each host
Clusters ==
    { [hosts |-> {"h1", "h2", "h3"},
       orders |-> { <<"h1", "h2", "h3">>, <<"h3", "h1", "h2">> },
       warm |-> BOOLEAN,
       remote |-> [h \in AllHosts |->
                     IF h = "h1" THEN Dicts(<< <<"mon", <<"h1">>>> >>) ELSE <<>>],
       mgr_map |-> NoMgr,
       mon_map |-> { <<"h1">> }],
      [hosts |-> {"h1", "h2", "h3"},
       orders |-> { <<"h1", "h2", "h3">>, <<"h3", "h1", "h2">> },
       warm |-> BOOLEAN,
       remote |-> [h \in AllHosts |->
                     CASE h = "h1" -> Dicts(<< <<"mon", <<"h1">>>>,
                                               <<"mgr", <<"h1", "t1">>>> >>)
                       [] h = "h2" -> Dicts(<< <<"mon", <<"h2">>>>,
                                               <<"mds", <<"fs", "h2", "t1">>>> >>)
                       [] OTHER -> <<>>],
       mgr_map |-> [active_name |-> <<"h1", "t1">>, standbys |-> {}],
       mon_map |-> { <<"h1">>, <<"h2">> }],
      [hosts |-> AllHosts,
       orders |-> Orders(AllHosts),
       warm |-> {TRUE},
       remote |-> [h \in AllHosts |->
                     IF h = "h1"
                     THEN Dicts(<< <<"mon", <<"h1">>>>, <<"mgr", <<"h1">>>> >>)
                     ELSE Dicts(<< <<"mgr", <<h>>>> >>)],
       mgr_map |-> [active_name |-> <<"h1">>, standbys |-> { <<"h2">>, <<"h3">> }],
       mon_map |-> { <<"h1">> }] }

InitApply ==
    \E c \in Clusters :
       /\ inventory = [h \in c.hosts |->
                         [addr |-> h, labels |-> IF h = "h1" THEN <<"l1">> ELSE <<>>]]
       /\ store_inventory = _save_inventory(inventory)
       /\ inventory_cache = SyncCache(inventory, EmptyDict)
       /\ host_order \in c.orders
       /\ remote = c.remote
       /\ mgr_map = c.mgr_map
       /\ mon_map = c.mon_map
       /\ \E warm \in c.warm :
             daemon_cache =
                SyncCache(inventory,
                          IF warm THEN [h \in c.hosts |-> OutdatableData(remote[h])]
                          ELSE EmptyDict)
       /\ cons = EmptyDict
       /\ health_checks = EmptyDict
       /\ event = TRUE
       /\ last = [op |-> "init", arg |-> "", input |-> NoSpec, repeat |-> FALSE,
                  result |-> "ok", effects |-> <<>>]
       /\ hist = NoHist
       /\ ops = 0
       /\ ret = <<>>
       /\ NoUpgradeInit
       /\ NoPipeline

\* what the remote executions of one operation come to: all succeed, or those
\* on h3 fail
OutcomeMaps ==
    { [h \in AllHosts |-> "ok"],
      [h \in AllHosts |-> IF h = "h3" THEN "exit" ELSE "ok"] }

MgrPlacements ==
    { <<>>,
      <<HostPlacementSpec("h1", "", <<>>), HostPlacementSpec("h3", "", <<>>)>> }

MonPlacements ==
    { <<>>,
      <<HostPlacementSpec("h3", "10.0.0.0/24", <<>>)>>,
      <<HostPlacementSpec("h2", "10.0.0.0/24", <<>>),
        HostPlacementSpec("h3", "10.0.0.0/24", <<>>)>>,
      <<HostPlacementSpec("h2", "", <<>>)>> }

PlacementLabels == {"", "l1"}

MgrSpecs ==
    { spec \in { ServiceSpec("mgr", c, hs, l) :
                    c \in 1..MaxCount, hs \in MgrPlacements, l \in PlacementLabels } :
        spec.hosts = <<>> \/ spec.label = "" }

MonSpecs ==
    { spec \in { ServiceSpec("mon", c, hs, l) :
                    c \in 1..MaxCount, hs \in MonPlacements, l \in PlacementLabels } :
        spec.hosts = <<>> \/ spec.label = "" }

\* what `orch rm` may be given
RmNames == {"mon", "mgr", "mgr.h1", "mon.h1", "mds", "mds.fs", "mds.fs.x"}

Reverse(seq) == [i \in 1..Len(seq) |-> seq[Len(seq) + 1 - i]]

\* the outcomes of random.shuffle the model follows
Shuffles(spec) ==
    IF spec.hosts = <<>> /\ spec.label = "" THEN {host_order, Reverse(host_order)}
    ELSE {host_order}

\* the draws of get_unique_name's random suffix the model follows
Draws == <<"t1", "t2">>

NextMgr ==
    \/ \E spec \in MgrSpecs :
          \E sh \in Shuffles(spec), outs \in OutcomeMaps :
             ops < MaxOps /\ ApplyMgr(spec, sh, Draws, outs)
    \/ \E outs \in OutcomeMaps : ServeRefresh(outs)

SpecMgr == InitApply /\ [][NextMgr]_vars

NextMon ==
    \/ \E spec \in MonSpecs :
          \E sh \in Shuffles(spec), outs \in OutcomeMaps :
             ops < MaxOps /\ ApplyMon(spec, sh, outs)
    \/ \E outs \in OutcomeMaps : ServeRefresh(outs)

SpecMon == InitApply /\ [][NextMon]_vars

NextRm ==
    \/ \E n \in RmNames, outs \in OutcomeMaps : ops < MaxOps /\ ServiceRm(n, outs)
    \/ \E outs \in OutcomeMaps : ServeRefresh(outs)

SpecRm == InitApply /\ [][NextRm]_vars

(***************************************************************************)
(* Rolling upgrade                                                         *)
(***************************************************************************)
\* the image an upgrade is asked to go to
TargetImage == "target"

\* an upgrade that takes the monitors before the managers
UpgradeOrder_mon_first == <<"mon", "mgr", "osd", "rgw", "mds">>

\* the order in which _do_upgrade walks the daemon types
UpgradeOrder == <<"mgr", "mon", "osd", "rgw", "mds">>

\* the attempts _wait_for_ok_to_stop makes
OkToStopTries == 4

\* the state a pass of the upgrade works on
UpEngine ==
    [cons |-> cons, daemon_cache |-> daemon_cache, remote |-> remote,
     mgr_map |-> mgr_map, mon_map |-> mon_map, event |-> event,
     config |-> config, images |-> images, registry |-> registry,
     effects |-> <<>>, failed |-> FALSE,
     upgrade_state |-> upgrade_state, store_upgrade_state |-> store_upgrade_state,
     health_checks |-> health_checks]

\* a command that never reaches the monitors
NoCommand(st, prefix, who, code) == st

\* a mon_command, as an entry of the log
MonCommand(st, prefix, who, code) ==
    [st EXCEPT !.effects = Append(@, RunEffect(prefix, "", who, code))]

\* a save that does not reach the store
_save_nothing(st) == st

\* _save_upgrade_state
_save_upgrade_state(st) ==
    [st EXCEPT !.store_upgrade_state = Stored(json_dumps(st.upgrade_state)),
               !.effects = Append(@, Effect("save_upgrade_state", "", NoName))]

\* an upgrade that pauses on an alert without a word to the operator
_fail_upgrade_silently(st, alert_id) ==
    _save_upgrade_state([st EXCEPT !.upgrade_state.error = alert_id,
                                   !.upgrade_state.paused = TRUE])

\* _fail_upgrade(alert_id, alert)
_fail_upgrade(st, alert_id) ==
    [_save_upgrade_state([st EXCEPT !.upgrade_state.error = alert_id,
                                    !.upgrade_state.paused = TRUE])
       EXCEPT !.health_checks = DictSet(@, alert_id, [count |-> 1, detail |-> {}])]

\* a stop or start that leaves the upgrade alerts raised
_keep_upgrade_health_checks(hc) == hc

\* _clear_upgrade_health_checks
_clear_upgrade_health_checks(hc) ==
    DictDel(DictDel(hc, "UPGRADE_NO_STANDBY_MGR"), "UPGRADE_FAILED_PULL")

\* a run of `pull` of the target image on a host with error_ok: the engine
\* after it, the exit code and the image id it reports
Pull(st, host, outcome) ==
    LET r == _run_cephadm(st.cons, inventory, host, NoneVal, "pull", NoName,
                          outcome, TRUE)
    IN  [st |-> [st EXCEPT !.cons = r.cons, !.effects = @ \o r.effects,
                           !.images[host] = IF r.code = 0 THEN st.registry ELSE @],
         code |-> r.code,
         image_id |-> st.registry]

\* a run of `inspect-image` of the target image on a host with error_ok; it
\* exits non-zero when the host does not hold the image
InspectImage(st, host, outcome) ==
    LET r == _run_cephadm(st.cons, inventory, host, NoneVal, "inspect-image",
                          NoName,
                          IF outcome = "ok" /\ st.images[host] = NoneVal
                          THEN "exit" ELSE outcome,
                          TRUE)
    IN  [st |-> [st EXCEPT !.cons = r.cons, !.effects = @ \o r.effects],
         code |-> r.code,
         image_id |-> st.images[host]]

\* _wait_for_ok_to_stop(s) when the cluster refuses the first `refusals`
\* queries: the engine after the queries and the answer
RECURSIVE _wait_for_ok_to_stop(_, _, _, _)
_wait_for_ok_to_stop(st, d, tries, refusals) ==
    IF tries = 0 \/ d.daemon_type \notin {"mon", "osd", "mds"}
    THEN [st |-> st, ok |-> TRUE]
    ELSE LET name == Section(d.daemon_type, d.daemon_id)
         IN  IF ~st.upgrade_state.active \/ st.upgrade_state.paused
             THEN [st |-> MonCommand(st, "ok-to-stop", name,
                                     IF refusals > 0 THEN 1 ELSE 0),
                   ok |-> FALSE]
             ELSE IF refusals > 0
             THEN Value({ _wait_for_ok_to_stop(next, d, tries - 1, refusals - 1) :
                           next \in { MonCommand(st, "ok-to-stop", name, 1) } })
             ELSE [st |-> MonCommand(st, "ok-to-stop", name, 0), ok |-> TRUE]

\* upgrade_pause on the state of a pass: what a pause that the operator
\* issues while the pass runs does
PauseMeanwhile(st, meanwhile) ==
    IF meanwhile = "pause"
    THEN [st EXCEPT !.upgrade_state.paused = TRUE,
                    !.store_upgrade_state =
                       Stored(json_dumps([st.upgrade_state EXCEPT !.paused = TRUE])),
                    !.effects = Append(@, Effect("upgrade_pause", "", NoName))]
    ELSE st

\* the part of _do_upgrade's loop body that handles a daemon that is not at
\* the target and is not the active manager; every way through it returns
\* from the pass
UpgradeDaemon(st, d, target_id, outs, refusals, meanwhile) ==
    LET name == Section(d.daemon_type, d.daemon_id)
        target_name == st.upgrade_state.target_name
        Stop(i, p) ==
            LET has == i.code = 0 /\ i.image_id = target_id
                Deploy(w) ==
                    IF ~w.ok THEN w.st
                    ELSE Value({ _create_daemon(c, d.daemon_type, d.daemon_id,
                                                d.nodename, outs[d.nodename]) :
                                 c \in { [MonCommand(w.st, "config set", name, 0)
                                            EXCEPT !.config =
                                               DictSet(@, name, target_name)] } })
            IN  IF ~has /\ p.code # 0
                THEN _fail_upgrade(p.st, "UPGRADE_FAILED_PULL")
                ELSE IF ~has /\ p.image_id # target_id
                THEN _save_upgrade_state(
                        [p.st EXCEPT !.upgrade_state.image_id = p.image_id])
                ELSE Value({ Deploy(w) :
                             w \in { _wait_for_ok_to_stop(
                                        PauseMeanwhile(IF has THEN i.st ELSE p.st,
                                                       meanwhile),
                                        d, OkToStopTries, refusals) } })
    IN  Value({ Value({ Stop(i, p) : p \in { Pull(i.st, d.nodename,
                                                   outs[d.nodename]) } }) :
                i \in { InspectImage(st, d.nodename, outs[d.nodename]) } })

\* get_mgr_id(): the manager this module runs in, the active one
get_mgr_id(st) == st.mgr_map.active_name

\* a loop over the daemons that takes the active manager like any other
Stops_active_too(st, d, target_id) ==
    \/ d.container_image_id = NoneVal
    \/ d.container_image_id # target_id

\* the daemons of a type that stop the loop over the daemons: one whose image
\* id is not known, or one that is not at the target and is not the active
\* manager
Stops(st, d, target_id) ==
    \/ d.container_image_id = NoneVal
    \/ /\ d.container_image_id # target_id
       /\ ~(d.daemon_type = "mgr" /\ d.daemon_id = get_mgr_id(st))

\* a fail-over after which the module starts without the upgrade state
MgrFail_forgets(st) ==
    LET new == CHOOSE x \in st.mgr_map.standbys : TRUE
    IN  [MonCommand(st, "mgr fail", Section("mgr", get_mgr_id(st)), 0) EXCEPT
           !.mgr_map = [active_name |-> new,
                        standbys |-> (@.standbys \ {new}) \cup {@.active_name}],
           !.cons = EmptyDict,
           !.daemon_cache = SyncCache(inventory, EmptyDict),
           !.upgrade_state = NoUpgrade,
           !.health_checks = EmptyDict]

\* what a `mgr fail` of the active manager leads to: a standby takes over,
\* the failed manager comes back as a standby, and the module starts anew in
\* the new active manager with what the store holds
MgrFail(st) ==
    LET new == CHOOSE x \in st.mgr_map.standbys : TRUE
    IN  [MonCommand(st, "mgr fail", Section("mgr", get_mgr_id(st)), 0) EXCEPT
           !.mgr_map = [active_name |-> new,
                        standbys |-> (@.standbys \ {new}) \cup {@.active_name}],
           !.cons = EmptyDict,
           !.daemon_cache = SyncCache(inventory, EmptyDict),
           !.upgrade_state = json_loads(st.store_upgrade_state.blob),
           !.health_checks = EmptyDict]

\* the end of the loop body of a daemon type whose daemons are all at the
\* target: push the type's container_image down and clean the daemons' own
PushDown(st, daemon_type, image_settings) ==
    LET target_name == st.upgrade_state.target_name
        own == { sec \in DOMAIN image_settings :
                   sec.daemon_type = daemon_type /\ sec.daemon_id # <<>> }
        set == IF Section(daemon_type, <<>>) \in DOMAIN image_settings
                  /\ image_settings[Section(daemon_type, <<>>)] = target_name
               THEN st
               ELSE [MonCommand(st, "config set", Section(daemon_type, <<>>), 0)
                       EXCEPT !.config = DictSet(@, Section(daemon_type, <<>>),
                                                 target_name)]
    IN  [set EXCEPT
           !.config = [sec \in DOMAIN @ \ own |-> @[sec]],
           !.effects = @ \o [i \in 1..Cardinality(own) |->
                               RunEffect("config rm", "", Section(daemon_type, <<"*">>), 0)]]

\* a clean up that leaves the settings of the daemon types in place
Finalize_keeps_types(st) ==
    _save_upgrade_state(
       [MonCommand(st, "config set", Section("global", <<>>), 0)
          EXCEPT !.config = DictSet(@, Section("global", <<>>),
                                    st.upgrade_state.target_name),
                 !.upgrade_state = NoUpgrade])

\* the clean up at the end of _do_upgrade
Finalize(st) ==
    LET global == [MonCommand(st, "config set", Section("global", <<>>), 0)
                     EXCEPT !.config = DictSet(@, Section("global", <<>>),
                                               st.upgrade_state.target_name)]
        types == { Section(UpgradeOrder[i], <<>>) : i \in 1..Len(UpgradeOrder) }
        cleaned == [global EXCEPT
                      !.config = [sec \in DOMAIN @ \ types |-> @[sec]],
                      !.effects = @ \o [i \in 1..Len(UpgradeOrder) |->
                                          RunEffect("config rm", "",
                                                    Section(UpgradeOrder[i], <<>>), 0)]]
    IN  _save_upgrade_state([cleaned EXCEPT !.upgrade_state = NoUpgrade])

\* the loop of _do_upgrade over the daemon types, from the type `types`
\* starts with
RECURSIVE TypeLoop(_, _, _, _, _, _, _, _)
TypeLoop(st, types, daemons, target_id, image_settings, outs, refusals, meanwhile) ==
    IF types = <<>> THEN Finalize(st)
    ELSE LET daemon_type == Head(types)
             mine  == SelectSeq(daemons, LAMBDA d : d.daemon_type = daemon_type)
             stops == SelectSeq(mine, LAMBDA d : Stops(st, d, target_id))
             need_upgrade_self ==
                 \E i \in 1..Len(mine) :
                    /\ mine[i].daemon_type = "mgr"
                    /\ mine[i].daemon_id = get_mgr_id(st)
                    /\ mine[i].container_image_id # target_id
             cleared == IF daemon_type = "mgr"
                        THEN [st EXCEPT !.health_checks =
                                DictDel(@, "UPGRADE_NO_STANDBY_MGR")]
                        ELSE st
         IN  IF stops # <<>>
             THEN Value({ IF d.container_image_id = NoneVal THEN st
                          ELSE UpgradeDaemon(st, d, target_id, outs, refusals,
                                             meanwhile) :
                          d \in { Head(stops) } })
             ELSE IF need_upgrade_self
             THEN IF st.mgr_map.standbys = {}
                  THEN _fail_upgrade(st, "UPGRADE_NO_STANDBY_MGR")
                  ELSE MgrFail(st)
             ELSE Value({ TypeLoop(next, Tail(types), daemons, target_id,
                                   image_settings, outs, refusals, meanwhile) :
                           next \in { PushDown(cleared, daemon_type,
                                               image_settings) } })

\* _get_container_image_id(target_name): the pull on the first host of the
\* inventory cache
FirstPull(st, order, outs) ==
    IF order = <<>> THEN [st |-> st, code |-> 1, image_id |-> NoneVal]
    ELSE Pull(st, Head(order), outs[Head(order)])

\* _do_upgrade(daemons)
_do_upgrade(st, daemons, order, outs, refusals, meanwhile) ==
    LET Learn(p) ==
            IF p.code # 0
            THEN _fail_upgrade(p.st, "UPGRADE_FAILED_PULL")
            ELSE Value({ TypeLoop(learned, UpgradeOrder, daemons, p.image_id,
                                  learned.config, outs, refusals, meanwhile) :
                         learned \in { _save_upgrade_state(
                                          [p.st EXCEPT !.upgrade_state.target_id =
                                                          p.image_id]) } })
    IN  IF ~st.upgrade_state.active THEN st
        ELSE IF st.upgrade_state.target_id = NoneVal
        THEN Value({ Learn(p) : p \in { FirstPull(st, order, outs) } })
        ELSE TypeLoop(st, UpgradeOrder, daemons, st.upgrade_state.target_id,
                      st.config, outs, refusals, meanwhile)

\* the upgrade commands
UpgradeCommands ==
    {"upgrade_start", "upgrade_pause", "upgrade_resume", "upgrade_stop"}

\* the journal of a behaviour that keeps one: the upgrade commands in the
\* order they came, the daemons the passes deployed, the fail-overs of the
\* manager, and whether a pass set a container_image
NoJournal == [cmds |-> <<>>, deployed |-> {}, failovers |-> 0,
              configured |-> FALSE]

Journal(op, st) ==
    IF "cmds" \notin DOMAIN hist THEN hist
    ELSE IF op \in UpgradeCommands THEN [hist EXCEPT !.cmds = Append(@, op)]
    ELSE [hist EXCEPT
            !.deployed = @ \cup { st.effects[i].name :
                                    i \in { k \in 1..Len(st.effects) :
                                              /\ st.effects[k].kind = "deploy"
                                              /\ st.effects[k].code = 0 } },
            !.failovers = @ + Cardinality({ i \in 1..Len(st.effects) :
                                              st.effects[i].kind = "mgr fail" }),
            !.configured = @ \/ \E i \in 1..Len(st.effects) :
                                   st.effects[i].kind = "config set"]

\* what an upgrade operation leaves behind
CommitUpgrade(st, op, arg, result, pass) ==
    /\ cons' = st.cons
    /\ daemon_cache' = st.daemon_cache
    /\ remote' = st.remote
    /\ mgr_map' = st.mgr_map
    /\ mon_map' = st.mon_map
    /\ event' = st.event
    /\ config' = st.config
    /\ images' = st.images
    /\ registry' = st.registry
    /\ upgrade_state' = st.upgrade_state
    /\ store_upgrade_state' = st.store_upgrade_state
    /\ health_checks' = st.health_checks
    /\ last' = [op |-> op, arg |-> arg, input |-> NoSpec, repeat |-> FALSE,
                result |-> result, effects |-> st.effects]
    /\ ret' = pass
    /\ ops' = IF op \in {"upgrade_start", "upgrade_pause", "upgrade_resume",
                          "upgrade_stop"}
              THEN ops + 1 ELSE ops
    /\ hist' = Journal(op, st)
    /\ UNCHANGED <<inventory, store_inventory, inventory_cache, host_order, pipevars>>

\* an upgrade_start that starts over, whatever is in progress
UpgradeStart_over(target_name) ==
    CommitUpgrade(_save_upgrade_state(
                     [UpEngine EXCEPT !.upgrade_state =
                         [NoUpgrade EXCEPT !.active = TRUE,
                                           !.target_name = target_name]]),
                  "upgrade_start", target_name, "Initiating", <<>>)

\* upgrade_start(image, version) for the target name the two arguments make
UpgradeStart(target_name) ==
    LET st == UpEngine
        resumed == _save_upgrade_state([st EXCEPT !.upgrade_state.paused = FALSE])
        started == _save_upgrade_state(
                      [st EXCEPT !.upgrade_state =
                          [NoUpgrade EXCEPT !.active = TRUE,
                                            !.target_name = target_name]])
    IN  IF upgrade_state.active
        THEN IF upgrade_state.target_name # target_name
             THEN CommitUpgrade(st, "upgrade_start", target_name,
                                "OrchestratorError", <<>>)
             ELSE IF upgrade_state.paused
             THEN CommitUpgrade(resumed, "upgrade_start", target_name, "Resumed", <<>>)
             ELSE CommitUpgrade(st, "upgrade_start", target_name, "in progress", <<>>)
        ELSE CommitUpgrade([started EXCEPT
                              !.health_checks = _clear_upgrade_health_checks(@),
                              !.event = TRUE,
                              !.effects = Append(@, Effect("event_set", "", NoName))],
                           "upgrade_start", target_name, "Initiating", <<>>)

\* upgrade_pause
UpgradePause ==
    LET st == UpEngine
    IN  IF ~upgrade_state.active
        THEN CommitUpgrade(st, "upgrade_pause", "", "OrchestratorError", <<>>)
        ELSE IF upgrade_state.paused
        THEN CommitUpgrade(st, "upgrade_pause", "", "already paused", <<>>)
        ELSE CommitUpgrade(PauseMeanwhile(st, "pause"), "upgrade_pause", "",
                           "Paused", <<>>)

\* upgrade_resume
UpgradeResume ==
    LET st == UpEngine
        resumed == _save_upgrade_state([st EXCEPT !.upgrade_state.paused = FALSE])
    IN  IF ~upgrade_state.active
        THEN CommitUpgrade(st, "upgrade_resume", "", "OrchestratorError", <<>>)
        ELSE IF ~upgrade_state.paused
        THEN CommitUpgrade(st, "upgrade_resume", "", "not paused", <<>>)
        ELSE CommitUpgrade([resumed EXCEPT
                              !.event = TRUE,
                              !.effects = Append(@, Effect("event_set", "", NoName))],
                           "upgrade_resume", "", "Resumed", <<>>)

\* upgrade_stop
UpgradeStop ==
    LET st == UpEngine
        stopped == _save_upgrade_state([st EXCEPT !.upgrade_state = NoUpgrade])
    IN  IF ~upgrade_state.active
        THEN CommitUpgrade(st, "upgrade_stop", "", "No upgrade", <<>>)
        ELSE CommitUpgrade([stopped EXCEPT
                              !.health_checks = _clear_upgrade_health_checks(@),
                              !.event = TRUE,
                              !.effects = Append(@, Effect("event_set", "", NoName))],
                           "upgrade_stop", "", "Stopped", <<>>)

\* a module option that is on unless the configuration turns it off, as
\* config_notify reads it
get_module_option(cfg, name) ==
    ~(Section(name, <<>>) \in DOMAIN cfg /\ cfg[Section(name, <<>>)] = "false")

\* list_servers(): the hosts on which the cluster knows of daemons, each with
\* the names of the daemons it has there
list_servers(rem) ==
    { [hostname |-> h,
       services |-> { rem[h][i].name : i \in 1..Len(rem[h]) }] :
      h \in { x \in DOMAIN rem : rem[x] # <<>> } }

\* a check for strays that raises no alert
RaiseStrays_none(hc, host_detail, daemon_detail) == hc

\* the two alerts on strays, out of the lines of detail gathered for them
RaiseStrays(hc, host_detail, daemon_detail) ==
    LET hosts == IF host_detail = {} THEN hc
                 ELSE DictSet(hc, "CEPHADM_STRAY_HOST",
                              [count |-> Cardinality(host_detail),
                               detail |-> host_detail])
    IN  IF daemon_detail = {} THEN hosts
        ELSE DictSet(hosts, "CEPHADM_STRAY_DAEMON",
                     [count |-> Cardinality(daemon_detail),
                      detail |-> daemon_detail])

\* _check_for_strays(daemons): both alerts are dropped, and with one of the
\* two options on, a host of list_servers that is not in the inventory gives
\* a line of host detail and a daemon of it whose name no managed daemon has
\* gives a line of daemon detail
_check_for_strays(st, inv, daemons) ==
    LET cleared == DictDel(DictDel(st.health_checks, "CEPHADM_STRAY_HOST"),
                           "CEPHADM_STRAY_DAEMON")
        ls == list_servers(st.remote)
        managed == { Section(daemons[i].daemon_type, daemons[i].daemon_id) :
                     i \in 1..Len(daemons) }
        host_detail == { item.hostname :
                         item \in { x \in ls : x.hostname \notin DOMAIN inv } }
        daemon_detail ==
            UNION { { <<name, item.hostname>> : name \in item.services \ managed } :
                    item \in ls }
        on == get_module_option(st.config, "warn_on_stray_hosts")
              \/ get_module_option(st.config, "warn_on_stray_daemons")
    IN  [st EXCEPT
           !.health_checks = IF on THEN RaiseStrays(cleared, host_detail, daemon_detail)
                             ELSE cleared,
           !.effects = Append(@, Effect("_check_for_strays", "", NoName))]

\* _serve_sleep: the wait on the event, which returns on a kick or when the
\* sleep interval is over, and the clearing of the event
_serve_sleep(st) ==
    [st EXCEPT !.event = FALSE,
               !.effects = Append(@, Effect("event_wait", "", NoName))]

\* one turn of the loop of serve from _get_daemons(maybe_refresh=True) on: a
\* failed refresh raises its health check and sleeps; else the check for
\* strays and, with an upgrade that is not paused, a pass of _do_upgrade over
\* the daemons the refresh saw, and a sleep without one
ServeUpgrade(outs, refusals, meanwhile) ==
  \E r \in { RefreshAll(UpEngine,
                        SelectSeq(host_order, LAMBDA h : outdated(daemon_cache[h])),
                        outs) } :
  \E ok \in { [r EXCEPT !.health_checks = DictDel(@, "CEPHADM_REFRESH_FAILED")] } :
  \E daemons \in { _get_daemons(r.daemon_cache, host_order, "", "") } :
  \E checked \in { _check_for_strays(ok, inventory, daemons) } :
  \E st \in { _do_upgrade(checked, daemons, host_order, outs, refusals, meanwhile) } :
    LET target_id == IF upgrade_state.target_id # NoneVal THEN upgrade_state.target_id
                     ELSE IF host_order # <<>> /\ outs[Head(host_order)] = "ok"
                     THEN registry ELSE NoneVal
    IN  IF r.failed
        THEN CommitUpgrade(_serve_sleep(
                              [r EXCEPT
                                 !.health_checks =
                                    DictSet(@, "CEPHADM_REFRESH_FAILED",
                                            [count |-> 1, detail |-> {}])]),
                           "_get_daemons", "", "RuntimeError", <<>>)
        ELSE IF upgrade_state.active /\ ~upgrade_state.paused
        THEN CommitUpgrade(st, "_do_upgrade", "",
                           IF st.failed THEN "RuntimeError" ELSE "ok",
                           <<[daemons |-> daemons, target_id |-> target_id,
                              mgr_id |-> mgr_map.active_name,
                              standbys |-> mgr_map.standbys,
                              before |-> upgrade_state]>>)
        ELSE CommitUpgrade(_serve_sleep(checked), "_serve_sleep", "", "ok", <<>>)

\* the registry starts to serve another image under the target name
Retag ==
    /\ registry = "B"
    /\ registry' = "C"
    /\ last' = [op |-> "retag", arg |-> "", input |-> NoSpec, repeat |-> FALSE,
                result |-> "ok", effects |-> <<>>]
    /\ UNCHANGED <<inventory, store_inventory, inventory_cache, daemon_cache,
                   host_order, cons, event, remote, mgr_map, mon_map,
                   health_checks, hist, ops, ret, upgrade_state,
                   store_upgrade_state, config, images, pipevars>>

\* the daemons of a cluster, with the ids of the images they run
RunningDicts(names) ==
    [i \in 1..Len(names) |-> DaemonDict(names[i][1], names[i][2], names[i][3])]

\* clusters an upgrade may be started on: two managers, a monitor and a
\* metadata server on two hosts; a single manager and a monitor on one host;
\* a manager that runs the new image already, with a monitor that does not
\* on a host that never held the new image; and such a manager with an OSD
\* whose image id is not known
UpgradeClusters ==
    { [hosts |-> {"h1", "h2"},
       remote |-> [h \in AllHosts |->
                     CASE h = "h1" -> RunningDicts(<< <<"mgr", <<"h1">>, "A">>,
                                                 <<"mon", <<"h1">>, "A">> >>)
                       [] h = "h2" -> RunningDicts(<< <<"mgr", <<"h2">>, "A">>,
                                                 <<"mds", <<"fs", "h2">>, "A">> >>)
                       [] OTHER -> <<>>],
       images |-> [h \in AllHosts |-> NoneVal],
       mgr_map |-> [active_name |-> <<"h1">>, standbys |-> { <<"h2">> }],
       mon_map |-> { <<"h1">> }],
      [hosts |-> {"h1"},
       remote |-> [h \in AllHosts |->
                     IF h = "h1"
                     THEN RunningDicts(<< <<"mgr", <<"h1">>, "A">>,
                                     <<"mon", <<"h1">>, "A">> >>)
                     ELSE <<>>],
       images |-> [h \in AllHosts |-> NoneVal],
       mgr_map |-> [active_name |-> <<"h1">>, standbys |-> {}],
       mon_map |-> { <<"h1">> }],
      [hosts |-> {"h1", "h2"},
       remote |-> [h \in AllHosts |->
                     CASE h = "h1" -> RunningDicts(<< <<"mgr", <<"h1">>, "B">> >>)
                       [] h = "h2" -> RunningDicts(<< <<"mon", <<"h2">>, "A">> >>)
                       [] OTHER -> <<>>],
       images |-> [h \in AllHosts |-> IF h = "h1" THEN "B" ELSE NoneVal],
       mgr_map |-> [active_name |-> <<"h1">>, standbys |-> {}],
       mon_map |-> { <<"h2">> }],
      [hosts |-> {"h1"},
       remote |-> [h \in AllHosts |->
                     IF h = "h1"
                     THEN RunningDicts(<< <<"mgr", <<"h1">>, "B">>,
                                          <<"osd", <<"0">>, NoneVal>> >>)
                     ELSE <<>>],
       images |-> [h \in AllHosts |-> IF h = "h1" THEN "B" ELSE NoneVal],
       mgr_map |-> [active_name |-> <<"h1">>, standbys |-> {}],
       mon_map |-> {}] }

InitCluster(clusters, journal) ==
    \E c \in clusters :
       /\ inventory = [h \in c.hosts |-> [addr |-> h, labels |-> <<>>]]
       /\ store_inventory = _save_inventory(inventory)
       /\ inventory_cache = SyncCache(inventory, EmptyDict)
       /\ host_order \in { o \in Orders(c.hosts) : Head(o) = "h1" }
       /\ remote = c.remote
       /\ mgr_map = c.mgr_map
       /\ mon_map = c.mon_map
       /\ daemon_cache = SyncCache(inventory, EmptyDict)
       /\ cons = EmptyDict
       /\ health_checks = EmptyDict
       /\ event = TRUE
       /\ last = [op |-> "init", arg |-> "", input |-> NoSpec, repeat |-> FALSE,
                  result |-> "ok", effects |-> <<>>]
       /\ hist = journal
       /\ ops = 0
       /\ ret = <<>>
       /\ upgrade_state = NoUpgrade
       /\ store_upgrade_state = NotStored
       /\ config = EmptyDict
       /\ images = c.images
       /\ registry = "B"
       /\ NoPipeline

InitUpgrade == InitCluster(UpgradeClusters, NoHist)

\* the names an operator may give the target image
TargetNames == {TargetImage, "other"}

\* what the remote executions of one pass come to: all succeed, or those on
\* one of the hosts fail
UpgradeOutcomes ==
    { [h \in AllHosts |-> "ok"],
      [h \in AllHosts |-> IF h = "h1" THEN "exit" ELSE "ok"],
      [h \in AllHosts |-> IF h = "h2" THEN "exit" ELSE "ok"] }

\* how many ok-to-stop queries in a row the cluster refuses
Refusals == {0, 1, OkToStopTries}

NextUpgrade ==
    \/ ops < MaxOps /\ \E n \in TargetNames : UpgradeStart(n)
    \/ ops < MaxOps /\ UpgradePause
    \/ ops < MaxOps /\ UpgradeResume
    \/ ops < MaxOps /\ UpgradeStop
    \/ \E outs \in UpgradeOutcomes, refusals \in Refusals,
          meanwhile \in {"none", "pause"} :
          ServeUpgrade(outs, refusals, meanwhile)
    \/ Retag

SpecUpgrade == InitUpgrade /\ [][NextUpgrade]_vars

\* the number of upgrade commands of a behaviour that keeps a journal
MaxCommands == 4

\* a cluster with a single manager and no upgrade, on which the commands are
\* journalled
InitJournal ==
    InitCluster({ c \in UpgradeClusters : c.mgr_map.standbys = {} }, NoJournal)

NextJournal ==
    \/ ops < MaxCommands /\ UpgradeStart(TargetImage)
    \/ ops < MaxCommands /\ UpgradePause
    \/ ops < MaxCommands /\ UpgradeResume
    \/ ops < MaxCommands /\ UpgradeStop
    \/ \E outs \in UpgradeOutcomes : ServeUpgrade(outs, 0, "none")

SpecJournal == InitJournal /\ [][NextJournal]_vars

\* clusters of three hosts whose managers run the old image: an active
\* manager on h1, a standby on h2, and any of a second standby on h3, a
\* monitor, an OSD, a gateway and a metadata server
HealthyClusters ==
    { [hosts |-> {"h1", "h2", "h3"},
       remote |-> [h \in AllHosts |->
                     CASE h = "h1" -> RunningDicts(
                               << <<"mgr", <<"h1">>, "A">> >>
                               \o (IF "mon" \in more
                                   THEN << <<"mon", <<"h1">>, "A">> >> ELSE <<>>))
                       [] h = "h2" -> RunningDicts(
                               << <<"mgr", <<"h2">>, "A">> >>
                               \o (IF "osd" \in more
                                   THEN << <<"osd", <<"0">>, "A">> >> ELSE <<>>)
                               \o (IF "mds" \in more
                                   THEN << <<"mds", <<"fs", "h2">>, "A">> >> ELSE <<>>))
                       [] h = "h3" -> RunningDicts(
                               (IF "mgr" \in more
                                THEN << <<"mgr", <<"h3">>, "A">> >> ELSE <<>>)
                               \o (IF "rgw" \in more
                                   THEN << <<"rgw", <<"r", "h3">>, "A">> >> ELSE <<>>))
                       [] OTHER -> <<>>],
       images |-> [h \in AllHosts |-> NoneVal],
       mgr_map |-> [active_name |-> <<"h1">>,
                    standbys |-> { <<"h2">> } \cup
                                 (IF "mgr" \in more THEN { <<"h3">> } ELSE {})],
       mon_map |-> IF "mon" \in more THEN { <<"h1">> } ELSE {}] :
      more \in SUBSET {"mgr", "mon", "osd", "rgw", "mds"} }

InitHealthy == InitCluster(HealthyClusters, NoJournal)

\* a turn of the loop of serve on which every host answers
Tick ==
    \E refusals \in Refusals :
       ServeUpgrade([h \in AllHosts |-> "ok"], refusals, "none")

NextHealthy ==
    \/ ops < MaxOps /\ UpgradeStart(TargetImage)
    \/ Tick

\* the loop of serve goes on for as long as the module runs
SpecHealthy == InitHealthy /\ [][NextHealthy]_vars /\ WF_vars(Tick)

\* a daemon that was not deployed by cephadm
LegacyDict(daemon_type, daemon_id) ==
    [DaemonDict(daemon_type, daemon_id, "A") EXCEPT !.style = "legacy"]

\* daemons the cluster may report that cephadm does not manage: one on a
\* host of the inventory, and on hosts outside it one of a name of its own,
\* one of the name of a managed daemon and a second one on the same host
StrayList ==
    << [host |-> "h2", dict |-> LegacyDict("osd", <<"1">>)],
       [host |-> "h3", dict |-> LegacyDict("mon", <<"x">>)],
       [host |-> "h3", dict |-> LegacyDict("osd", <<"2">>)],
       [host |-> "h4", dict |-> LegacyDict("mon", <<"h1">>)] >>

Strays == { StrayList[i] : i \in 1..Len(StrayList) }

\* the strays of a set that are on a host, as its `ls` lists them
StraysOn(some, h) ==
    LET on == SelectSeq(StrayList, LAMBDA x : x \in some /\ x.host = h)
    IN  [i \in 1..Len(on) |-> on[i].dict]

\* a cluster of managed daemons on h1 and h2 with some strays
InitStray ==
    \E some \in SUBSET Strays :
       InitCluster(
          { [hosts |-> {"h1", "h2"},
             remote |-> [h \in AllHosts |->
                           (CASE h = "h1" -> RunningDicts(<< <<"mgr", <<"h1">>, "A">>,
                                                            <<"mon", <<"h1">>, "A">> >>)
                              [] h = "h2" -> RunningDicts(<< <<"osd", <<"0">>, "A">> >>)
                              [] OTHER -> <<>>)
                           \o StraysOn(some, h)],
             images |-> [h \in AllHosts |-> NoneVal],
             mgr_map |-> [active_name |-> <<"h1">>, standbys |-> {}],
             mon_map |-> { <<"h1">> }] },
          NoHist)

\* what is left alone when the cluster or the configuration changes under
\* the engine
StrayFrame(op) ==
    /\ last' = [op |-> op, arg |-> "", input |-> NoSpec, repeat |-> FALSE,
                result |-> "ok", effects |-> <<>>]
    /\ UNCHANGED <<inventory, store_inventory, inventory_cache, daemon_cache,
                   host_order, cons, event, mgr_map, mon_map, health_checks, hist,
                   ops, ret, upgrade_state, store_upgrade_state, images, registry,
                   pipevars>>

\* a daemon that cephadm does not manage goes away
StrayLeaves(x) ==
    /\ \E i \in 1..Len(remote[x.host]) : remote[x.host][i] = x.dict
    /\ remote' = [remote EXCEPT ![x.host] = SelectSeq(@, LAMBDA d : d # x.dict)]
    /\ UNCHANGED config
    /\ StrayFrame("stray_leaves")

\* a daemon that cephadm does not manage turns up
StrayJoins(x) ==
    /\ \A i \in 1..Len(remote[x.host]) : remote[x.host][i] # x.dict
    /\ remote' = [remote EXCEPT ![x.host] = Append(@, x.dict)]
    /\ UNCHANGED config
    /\ StrayFrame("stray_joins")

\* `config set mgr mgr/cephadm/<option> <value>` and the config_notify that
\* follows it
SetModuleOption(name, value) ==
    /\ config' = DictSet(config, Section(name, <<>>), value)
    /\ UNCHANGED remote
    /\ StrayFrame("config_notify")

NextStray ==
    \/ \E x \in Strays : StrayLeaves(x)
    \/ \E x \in Strays : StrayJoins(x)
    \/ \E name \in {"warn_on_stray_hosts", "warn_on_stray_daemons"},
          value \in {"true", "false"} : SetModuleOption(name, value)
    \/ \E outs \in UpgradeOutcomes : ServeUpgrade(outs, 0, "none")

SpecStray == InitStray /\ [][NextStray]_vars

(***************************************************************************)
(* Placement resolution and name generation on their own                   *)
(***************************************************************************)
\* host pools get_hosts_func may yield
Pools == { {}, {"h1"}, {"h1", "h2", "h3"} }

\* an engine that manages the hosts of a pool and runs no daemon
InitPool ==
    /\ \E hosts \in Pools :
          /\ inventory = [h \in hosts |->
                            [addr |-> h,
                             labels |-> IF h = "h1" THEN <<"l1">> ELSE <<>>]]
          /\ host_order \in Orders(hosts)
    /\ store_inventory = _save_inventory(inventory)
    /\ inventory_cache = SyncCache(inventory, EmptyDict)
    /\ daemon_cache = SyncCache(inventory, EmptyDict)
    /\ remote = [h \in AllHosts |-> <<>>]
    /\ mgr_map = NoMgr
    /\ mon_map = {}
    /\ cons = EmptyDict
    /\ health_checks = EmptyDict
    /\ event = TRUE
    /\ last = [op |-> "init", arg |-> "", input |-> NoSpec, repeat |-> FALSE,
               result |-> "ok", effects |-> <<>>]
    /\ hist = NoHist
    /\ ops = 0
    /\ ret = <<>>
    /\ NoUpgradeInit
    /\ NoPipeline

\* the placements a spec may carry into NodeAssignment
LoadPlacements ==
    { <<>>,
      <<HostPlacementSpec("h2", "", <<>>)>>,
      <<HostPlacementSpec("h1", "", <<>>), HostPlacementSpec("h3", "", <<>>)>>,
      <<HostPlacementSpec("h2", "", <<>>), HostPlacementSpec("h2", "", <<>>)>> }

\* count 0 stands for a placement without a count
LoadSpecs ==
    { ServiceSpec("mgr", c, hs, l) :
        c \in 0..MaxCount, hs \in LoadPlacements, l \in PlacementLabels }

\* NodeAssignment(spec, get_hosts_func=self._get_hosts).load()
Load(spec, shuffled) ==
    /\ ret' = NodeAssignmentLoad(spec, host_order, shuffled)
    /\ last' = [op |-> "load", arg |-> "", input |-> spec, repeat |-> FALSE,
                result |-> IF ret'.error = "" THEN "ok" ELSE ret'.error,
                effects |-> <<>>]
    /\ UNCHANGED <<inventory, store_inventory, inventory_cache, daemon_cache,
                   host_order, cons, event, remote, mgr_map, mon_map,
                   health_checks, hist, ops, upvars, pipevars>>

NextLoad ==
    \E spec \in LoadSpecs : \E sh \in Shuffles(spec) : Load(spec, sh)

SpecLoad == InitPool /\ [][NextLoad]_vars

\* lists of existing daemons a caller may hand to get_unique_name
ExistingLists ==
    { HostDaemons(Dicts(names), "h1", "", "") :
        names \in { <<>>,
                    << <<"mgr", <<"h1", "t1">>>> >>,
                    << <<"mgr", <<"h1", "t1">>>>, <<"mgr", <<"h1", "t2">>>> >>,
                    << <<"mgr", <<"x">>>>, <<"mds", <<"fs", "h1", "t2">>>> >> } }

NameHosts == {"h1", "h1.dom", "h2"}

NamePrefixes == {"", "fs"}

ForcedNames == { <<>>, <<"x">>, <<"y">> }

\* what the call self.log('name %s exists, trying again', name) comes to:
\* self.log is the logger whose methods debug, info and warning the module
\* calls everywhere else; the call of the object itself returns or raises
LogCalls == {"returns", "TypeError"}

\* a call of get_unique_name that returns or raises
UniqueName(host, existing, prefix, forcename, draws, log_call) ==
    LET collides == /\ forcename = <<>>
                    /\ IdInUse(existing, DrawnName(host, prefix, Head(draws)))
        raised == collides /\ log_call = "TypeError"
    IN  /\ ret' = [host |-> host, existing |-> existing, prefix |-> prefix,
                   forcename |-> forcename, draws |-> draws, log_call |-> log_call,
                   name |-> IF raised THEN <<>>
                            ELSE get_unique_name(host, existing, prefix, forcename,
                                                 draws)]
        /\ last' = [op |-> "get_unique_name", arg |-> host, input |-> NoSpec,
                    repeat |-> FALSE,
                    result |-> IF raised THEN "TypeError"
                               ELSE IF ret'.name = <<>> THEN "RuntimeError"
                               ELSE "ok",
                    effects |-> <<>>]
        /\ UNCHANGED <<inventory, store_inventory, inventory_cache, daemon_cache,
                       host_order, cons, event, remote, mgr_map, mon_map,
                       health_checks, hist, ops, upvars, pipevars>>

NextName ==
    \E host \in NameHosts, existing \in ExistingLists, prefix \in NamePrefixes,
       forcename \in ForcedNames, log_call \in LogCalls :
       \E draws \in (IF forcename = <<>> THEN DrawsFor(host, existing, prefix)
                     ELSE Orders(Tags)) :
          UniqueName(host, existing, prefix, forcename, draws, log_call)

SpecName == InitPool /\ [][NextName]_vars

(***************************************************************************)
(* Completions                                                             *)
(***************************************************************************)
\* the links of a chain a.then(b).then(c)
ChainLen == 3

\* the number of chains a behaviour builds
MaxChains == 2

\* _Promise.NO_RESULT
NO_RESULT == <<"NO_RESULT">>

\* what the callbacks of the links are called
LinkNames == <<"a", "b", "c", "d">>

\* what the callback of a link makes of its argument
Result(i, arg) == Append(arg, LinkNames[i])

\* AsyncCompletion(value, on_complete, many): a completion that waits for
\* its turn
AsyncCompletion(value, many) ==
    [state |-> "pending", value |-> value, on_complete |-> TRUE, many |-> many]

\* something that happened to a link of a chain
ChainEvent(kind, i, value) == [kind |-> kind, link |-> i, value |-> value]

\* a.then(b).then(c): each `then` on a completion that has a callback
\* appends a completion for the new one
Then(value, many) ==
    [links |-> [i \in 1..ChainLen |->
                  IF i = 1 THEN AsyncCompletion(value, many)
                  ELSE AsyncCompletion(NO_RESULT, FALSE)],
     log |-> <<>>]

\* a link that is handed nothing
Deliver_nothing(next, result) == next

\* a link is handed the result of the one before it
Deliver(next, result) == [next EXCEPT !.value = result]

RECURSIVE _finalize(_, _, _, _)
RECURSIVE callback(_, _, _, _)

\* _finalize(value): a completion that is not done takes the value; with a
\* callback left, run(value) puts do_work on the pool (a map over no value
\* calls callback([]) at once, and the pool then has nothing to call back
\* for); with none left the completion is resolved and the next one is
\* finalized with its value
_finalize(pl, c, i, value) ==
    LET p == pl.chains[c].links[i]
        v == IF value # NO_RESULT THEN value ELSE p.value
    IN  IF p.state \notin {"pending", "running"} THEN pl
        ELSE IF p.on_complete
        THEN LET started == [pl EXCEPT !.chains[c].links[i].state = "running",
                                       !.chains[c].links[i].value = v]
             IN  IF p.many /\ v = <<>>
                 THEN callback(started, c, i, <<>>)
                 ELSE [started EXCEPT
                         !.queue = Append(@, [chain |-> c, link |-> i, value |-> v]),
                         !.chains[c].log = Append(@, ChainEvent("schedule", i, v))]
        ELSE IF i < Len(pl.chains[c].links)
        THEN _finalize([pl EXCEPT !.chains[c].links[i].state = "resolved",
                                  !.chains[c].links[i].value = v,
                                  !.chains[c].links[i + 1] = Deliver(@, v),
                                  !.chains[c].log = Append(@, ChainEvent("pass", i, v))],
                       c, i + 1, NO_RESULT)
        ELSE [pl EXCEPT !.chains[c].links[i].state = "resolved",
                        !.chains[c].links[i].value = v]

\* AsyncCompletion._on_complete.callback(result): the callback is dropped
\* and the completion finalized with the result
callback(pl, c, i, result) ==
    _finalize([pl EXCEPT !.chains[c].links[i].on_complete = FALSE,
                         !.chains[c].log = Append(@, ChainEvent("result", i, result))],
              c, i, result)

\* fail(e): the completion and the ones after it end with the exception
RECURSIVE fail(_, _, _)
fail(pl, c, i) ==
    IF i > Len(pl.chains[c].links) THEN pl
    ELSE IF pl.chains[c].links[i].state \notin {"pending", "running"}
    THEN fail(pl, c, i + 1)
    ELSE fail([pl EXCEPT !.chains[c].links[i].state = "failed",
                         !.chains[c].links[i].value = "exception"],
              c, i + 1)

\* the completions and the queue of the pool
Pipeline == [chains |-> chains, queue |-> _worker_pool.queue]

\* what an operation on the completions leaves behind
CommitPipeline(pl, running, op) ==
    /\ chains' = pl.chains
    /\ _worker_pool' = [_worker_pool EXCEPT !.queue = pl.queue, !.running = running]
    /\ last' = [op |-> op, arg |-> "", input |-> NoSpec, repeat |-> FALSE,
                result |-> "ok", effects |-> <<>>]
    /\ UNCHANGED <<inventory, store_inventory, inventory_cache, daemon_cache,
                   host_order, cons, event, remote, mgr_map, mon_map, health_checks,
                   hist, ops, ret, upvars, run, serving>>

\* a command builds a.then(b).then(c) and waits for it: _orchestrator_wait
\* has process([completion]) start the chain through finalize()
Build(value, many) ==
    /\ Len(chains) < MaxChains
    /\ CommitPipeline(
          _finalize([Pipeline EXCEPT !.chains = Append(@, Then(value, many))],
                    Len(chains) + 1, 1, NO_RESULT),
          _worker_pool.running, "then")

\* the thread of the pool takes the next do_work and calls the callback of
\* its link
PoolStart ==
    /\ _worker_pool.running = <<>>
    /\ _worker_pool.queue # <<>>
    /\ LET task == Head(_worker_pool.queue)
       IN  CommitPipeline(
              [Pipeline EXCEPT
                 !.queue = Tail(@),
                 !.chains[task.chain].log =
                    Append(@, ChainEvent("call", task.link, task.value))],
              <<task>>, "do_work")

\* do_work returns or raises, and the pool calls callback or error_callback
PoolDone(outcome) ==
    /\ _worker_pool.running # <<>>
    /\ LET task == _worker_pool.running[1]
       IN  IF outcome = "ok"
           THEN CommitPipeline(callback(Pipeline, task.chain, task.link,
                                        Result(task.link, task.value)),
                               <<>>, "callback")
           ELSE CommitPipeline(
                   fail([Pipeline EXCEPT
                           !.chains[task.chain].log =
                              Append(@, ChainEvent("error", task.link, "exception"))],
                        task.chain, task.link),
                   <<>>, "error_callback")

\* completions that are left as they are
cancel_nothing(chs) == chs

\* cancel_completions: every completion that is not done is cancelled
cancel_completions(chs) ==
    [c \in 1..Len(chs) |->
       [chs[c] EXCEPT
          !.links = [i \in 1..Len(@) |->
                       IF @[i].state \in {"pending", "running"}
                       THEN [@[i] EXCEPT !.state = "cancelled"]
                       ELSE @[i]]]]

\* `orch cancel`
Cancel ==
    /\ \E c \in 1..Len(chains), i \in 1..ChainLen :
          chains[c].links[i].state \in {"pending", "running"}
    /\ LET cancelled == cancel_completions(chains)
       IN  CommitPipeline(
              [Pipeline EXCEPT
                 !.chains = [c \in 1..Len(chains) |->
                               [cancelled[c] EXCEPT
                                  !.log = Append(@, ChainEvent("cancel", 0, ""))]]],
              _worker_pool.running, "cancel_completions")

\* what the first completion of a chain is built with: one call, or a map
\* over no value; a map over values is put on the pool and called back as
\* the one call is
ChainHeads ==
    { [value |-> <<"h1">>, many |-> FALSE],
      [value |-> <<>>, many |-> TRUE] }

InitChain ==
    InitCluster({ c \in UpgradeClusters : c.hosts = {"h1"} /\ c.mon_map # {} }, NoHist)

NextChain ==
    \/ \E h \in ChainHeads : Build(h.value, h.many)
    \/ PoolStart
    \/ \E outcome \in {"ok", "raise"} : PoolDone(outcome)
    \/ Cancel

SpecChain == InitChain /\ [][NextChain]_vars

(***************************************************************************)
(* Shutdown                                                                *)
(***************************************************************************)
\* what shutdown and the return of serve leave alone
ServeFrame(op) ==
    /\ last' = [op |-> op, arg |-> "", input |-> NoSpec, repeat |-> FALSE,
                result |-> "ok", effects |-> <<>>]
    /\ UNCHANGED <<inventory, store_inventory, inventory_cache, daemon_cache,
                   host_order, cons, remote, mgr_map, mon_map, health_checks, hist,
                   ops, ret, upvars, chains>>

\* shutdown: the pool is closed and joined, which lets what is on it run to
\* its end, then run is cleared and the event set
shutdown ==
    /\ run
    /\ _worker_pool.queue = <<>> /\ _worker_pool.running = <<>>
    /\ _worker_pool' = [_worker_pool EXCEPT !.closed = TRUE, !.joined = TRUE]
    /\ run' = FALSE
    /\ event' = TRUE
    /\ UNCHANGED serving
    /\ ServeFrame("shutdown")

\* serve: `while self.run` finds run cleared and the loop returns
ServeReturn ==
    /\ serving
    /\ ~run
    /\ serving' = FALSE
    /\ UNCHANGED <<run, _worker_pool, event>>
    /\ ServeFrame("serve_return")

InitServe == InitCluster(UpgradeClusters, NoHist)

NextServe ==
    \/ ops < MaxOps /\ UpgradeStart(TargetImage)
    \/ ops < MaxOps /\ UpgradePause
    \/ \E outs \in UpgradeOutcomes :
          run /\ serving /\ ServeUpgrade(outs, 0, "none")
    \/ shutdown
    \/ ServeReturn

SpecServe == InitServe /\ [][NextServe]_vars

(***************************************************************************)
(* add of the daemons of a service                                         *)
(***************************************************************************)
\* str.startswith on the service names the model uses: "fs" begins "fs2"
StartsWith(s, prefix) == s = prefix \/ <<prefix, s>> \in { <<"fs", "fs2">> }

\* _add_new_daemon: d.name().startswith(f'{daemon_type}.{spec.name}'), a name
\* of None formatted as 'None'
OurDaemons(daemons, daemon_type, name) ==
    SelectSeq(daemons, LAMBDA d : /\ d.daemon_type = daemon_type
                                  /\ StartsWith(d.daemon_id[1], name))

\* _add_new_daemon: the placement entries whose host has none of `daemons`
HostsWithoutDaemons(daemons, hosts) ==
    { hosts[i] : i \in { j \in 1..Len(hosts) :
                           \A k \in 1..Len(daemons) :
                              daemons[k].nodename # hosts[j].hostname } }

\* _add_new_daemon: the loop over hosts_without_daemons, which stops when
\* `room` daemons are placed or get_unique_name raises
RECURSIVE PlaceNew(_, _, _, _, _, _, _)
PlaceNew(daemon_type, daemons, name, hosts, room, draws, args) ==
    IF hosts = <<>> \/ room <= 0 THEN [args |-> args, raised |-> FALSE]
    ELSE LET host == Head(hosts).hostname
             daemon_id == get_unique_name(host, daemons,
                                          IF name = NoneVal THEN "" ELSE name,
                                          Head(hosts).name, draws)
             sd == [daemon_type |-> daemon_type, daemon_id |-> daemon_id,
                    nodename |-> host, container_image_id |-> NoneVal]
         IN  IF daemon_id = <<>> THEN [args |-> args, raised |-> TRUE]
             ELSE PlaceNew(daemon_type, Append(daemons, sd), name, Tail(hosts),
                           room - 1, draws,
                           Append(args, [daemon_type |-> daemon_type,
                                         daemon_id |-> daemon_id, host |-> host]))

\* _add_new_daemon(daemon_type, daemons, spec, create_func) up to the call of
\* create_func, `order` the order in which the set hosts_without_daemons is
\* iterated: the tuples for create_func, or the error and the missing count
_add_new_daemon(daemon_type, daemons, name, spec, order, draws) ==
    LET our == Len(OurDaemons(daemons, daemon_type, name))
        placed == PlaceNew(daemon_type, daemons, name, order, spec.count - our,
                           draws, <<>>)
        num_added == Len(placed.args)
    IN  IF placed.raised
        THEN [args |-> <<>>, error |-> "RuntimeError", missing |-> 0]
        ELSE IF our + num_added < spec.count
        THEN [args |-> <<>>, error |-> "OrchestratorError",
              missing |-> spec.count - our - num_added]
        ELSE [args |-> placed.args, error |-> "", missing |-> 0]

\* `config set who=mds.<name> name=mds_join_fs`
JoinFs(name) == [daemon_type |-> "mds", daemon_id |-> <<name>>,
                 option |-> "mds_join_fs"]

\* the engine after add_mds or add_rbd_mirror, and what the observed list and
\* the tuples handed to create_func were
CommitAdd(st, daemon_type, name, spec, result, cfg, observed, r) ==
    /\ cons' = st.cons
    /\ daemon_cache' = st.daemon_cache
    /\ remote' = st.remote
    /\ event' = st.event
    /\ config' = cfg
    /\ ops' = ops + 1
    /\ last' = [op |-> "add_" \o daemon_type, arg |-> name, input |-> spec,
                repeat |-> FALSE,
                result |-> IF result = "ok" /\ st.failed THEN "RuntimeError"
                           ELSE result,
                effects |-> st.effects]
    /\ ret' = [daemons |-> observed, args |-> r.args, missing |-> r.missing]
    /\ UNCHANGED <<inventory, store_inventory, inventory_cache, host_order,
                   mgr_map, mon_map, health_checks, hist, upgrade_state,
                   store_upgrade_state, images, registry, pipevars>>

NoArgs == [args |-> <<>>, error |-> "", missing |-> 0]

\* add_mds(spec) and add_rbd_mirror(spec), spec.name `name`
AddDaemons(daemon_type, name, spec, draws, outs) ==
    LET hosts == spec.hosts
        daemons == _get_daemons(daemon_cache, host_order, daemon_type, "")
        cfg == IF daemon_type = "mds" THEN DictSet(config, JoinFs(name), name)
               ELSE config
    IN  IF hosts = <<>> \/ Len(hosts) < spec.count
        THEN CommitAdd(Engine, daemon_type, name, spec, "RuntimeError", config,
                       <<>>, NoArgs)
        ELSE \E order \in Orders(HostsWithoutDaemons(daemons, hosts)) :
                \E r \in {_add_new_daemon(daemon_type, daemons, name, spec, order,
                                          draws)} :
                   IF r.error # ""
                   THEN CommitAdd(Engine, daemon_type, name, spec, r.error, cfg,
                                  daemons, r)
                   ELSE CommitAdd(CreateAll(Engine, r.args, outs), daemon_type,
                                  name, spec, "ok", cfg, daemons, r)

\* clusters daemons may be added to: one with a mirror daemon and metadata
\* servers of the file systems fs2 and fs, and one with only its monitor
AddClusters ==
    { [hosts |-> {"h1", "h2", "h3"},
       remote |-> [h \in AllHosts |->
                     CASE h = "h1" -> Dicts(<< <<"mon", <<"h1">>>>,
                                               <<"rbd-mirror", <<"h1", "t1">>>>,
                                               <<"mds", <<"fs2", "h1", "t1">>>> >>)
                       [] h = "h2" -> Dicts(<< <<"mds", <<"fs", "h2", "t1">>>> >>)
                       [] OTHER -> <<>>],
       images |-> [h \in AllHosts |-> NoneVal],
       mgr_map |-> NoMgr,
       mon_map |-> { <<"h1">> }],
      [hosts |-> {"h1", "h2", "h3"},
       remote |-> [h \in AllHosts |->
                     IF h = "h1" THEN Dicts(<< <<"mon", <<"h1">>>> >>) ELSE <<>>],
       images |-> [h \in AllHosts |-> NoneVal],
       mgr_map |-> NoMgr,
       mon_map |-> { <<"h1">> }] }

AddPlacements ==
    { <<>>,
      <<HostPlacementSpec("h3", "", <<>>)>>,
      <<HostPlacementSpec("h2", "", <<>>), HostPlacementSpec("h3", "", <<>>)>>,
      <<HostPlacementSpec("h3", "", <<"a">>), HostPlacementSpec("h3", "", <<"b">>)>> }

\* the services of the add commands: a file system's metadata servers, and
\* the mirror daemons, whose spec has no name
AddServices == { <<"mds", "fs">>, <<"rbd-mirror", NoneVal>> }

InitAdd == InitCluster(AddClusters, NoHist)

NextAdd ==
    \/ \E sv \in AddServices, c \in 1..MaxCount, hs \in AddPlacements,
          outs \in OutcomeMaps :
          ops < MaxOps /\ AddDaemons(sv[1], sv[2], ServiceSpec(sv[1], c, hs, ""),
                                     Draws, outs)
    \/ ServeRefresh([h \in AllHosts |-> "ok"])

SpecAdd == InitAdd /\ [][NextAdd]_vars

(***************************************************************************)
(* The event gate of the loop of serve                                     *)
(***************************************************************************)
\* _kick_serve_loop left out: the event stays as it is
_kick_nothing(e) == e

\* _kick_serve_loop, and the self.event.set() the mutators end with
_kick_serve_loop(e) == TRUE

\* the loop and the mutator before either has moved: the loop is about to
\* begin an iteration; `changes` counts the changes the mutators applied,
\* `announced` is its value at the last set of the event, `seen` its value
\* when the last iteration began, `at` where the loop was at the last set
NoGate ==
    [pc |-> "iterate", seen |-> 0, changes |-> 0, announced |-> 0,
     pending |-> FALSE, at |-> ""]

\* what a step of the loop or a set of the event leaves alone
GateFrame(op) ==
    /\ last' = [op |-> op, arg |-> "", input |-> NoSpec, repeat |-> FALSE,
                result |-> "ok", effects |-> <<>>]
    /\ UNCHANGED <<inventory, store_inventory, inventory_cache, daemon_cache,
                   host_order, remote, mgr_map, mon_map, ops, ret, upvars, pipevars>>

\* add_host up to its self.event.set(): the host is in the inventory, which
\* is saved, and has its cache entries
GateAddHost(hostname) ==
    /\ ~hist.pending
    /\ hist.changes < MaxOps
    /\ hostname \notin DOMAIN inventory
    /\ inventory' = DictSet(inventory, hostname, [addr |-> hostname, labels |-> <<>>])
    /\ store_inventory' = _save_inventory(inventory')
    /\ inventory_cache' = DictSet(inventory_cache, hostname, OutdatableDataEmpty)
    /\ daemon_cache' = DictSet(daemon_cache, hostname, OutdatableDataEmpty)
    /\ host_order' = OrderSet(host_order, hostname)
    /\ hist' = [hist EXCEPT !.pending = TRUE, !.changes = @ + 1]
    /\ last' = [op |-> "add_host", arg |-> hostname, input |-> NoSpec,
                repeat |-> FALSE, result |-> "ok",
                effects |-> <<Effect("save_inventory", hostname, NoName)>>]
    /\ UNCHANGED <<cons, event, remote, mgr_map, mon_map, health_checks, ops, ret,
                   upvars, pipevars>>

\* remove_host up to its self.event.set()
GateRemoveHost(host) ==
    /\ ~hist.pending
    /\ hist.changes < MaxOps
    /\ host \in DOMAIN inventory
    /\ inventory' = DictDel(inventory, host)
    /\ host_order' = OrderDel(host_order, host)
    /\ store_inventory' = _save_inventory(inventory')
    /\ inventory_cache' = DictDel(inventory_cache, host)
    /\ daemon_cache' = DictDel(daemon_cache, host)
    /\ cons' = _reset_con(cons, host)
    /\ hist' = [hist EXCEPT !.pending = TRUE, !.changes = @ + 1]
    /\ last' = [op |-> "remove_host", arg |-> host, input |-> NoSpec,
                repeat |-> FALSE, result |-> "ok",
                effects |-> <<Effect("save_inventory", host, NoName)>>]
    /\ UNCHANGED <<event, remote, mgr_map, mon_map, health_checks, ops, ret,
                   upvars, pipevars>>

\* the self.event.set() a mutator ends with
GateSet ==
    /\ hist.pending
    /\ event' = _kick_serve_loop(event)
    /\ hist' = [hist EXCEPT !.pending = FALSE, !.announced = hist.changes,
                            !.at = hist.pc]
    /\ UNCHANGED <<cons, health_checks>>
    /\ GateFrame("event_set")

\* serve: an iteration begins with the hosts as they are now, checks them
\* and comes to _serve_sleep
GateIterate ==
    /\ hist.pc = "iterate"
    /\ \E r \in { CheckHostsLoop(host_order, [h \in AllHosts |-> "ok"], cons, {},
                                 <<>>) } :
          /\ cons' = r.cons
          /\ health_checks' = DictDel(health_checks, "CEPHADM_HOST_CHECK_FAILED")
    /\ hist' = [hist EXCEPT !.pc = "wait", !.seen = hist.changes]
    /\ UNCHANGED event
    /\ GateFrame("serve")

\* _serve_sleep: self.event.wait(sleep_interval) returns, at once when the
\* event is set and else when the interval is over
GateWait ==
    /\ hist.pc = "wait"
    /\ hist' = [hist EXCEPT !.pc = "clear"]
    /\ UNCHANGED <<cons, health_checks, event>>
    /\ GateFrame(IF event THEN "event_wait" ELSE "event_timeout")

\* _serve_sleep: self.event.clear()
GateClear ==
    /\ hist.pc = "clear"
    /\ event' = FALSE
    /\ hist' = [hist EXCEPT !.pc = "iterate"]
    /\ UNCHANGED <<cons, health_checks>>
    /\ GateFrame("event_clear")

InitGate == InitCluster(AddClusters, NoGate)

NextGate ==
    \/ \E h \in AllHosts : GateAddHost(h)
    \/ \E h \in AllHosts : GateRemoveHost(h)
    \/ GateSet
    \/ GateIterate
    \/ GateWait
    \/ GateClear

SpecGate == InitGate /\ [][NextGate]_vars

(***************************************************************************)
(* Properties of the host inventory                                        *)
(***************************************************************************)
HasEffect(kind) == \E i \in 1..Len(last.effects) : last.effects[i].kind = kind

\* C1: after engine start and after every host operation, the inventory, the
\* device-inventory cache and the daemon cache have the same set of keys.
C1_KeySetsAgree ==
    /\ DOMAIN inventory_cache = DOMAIN inventory
    /\ DOMAIN daemon_cache = DOMAIN inventory

C1_Witness ==
    /\ last.op = "remove_host"
    /\ last.result = "ok"
    /\ DOMAIN inventory = {"h2"}

\* the host-name grammar: at most 250 characters, '.'-separated parts of 1 to
\* 63 characters over [a-zA-Z0-9-]
InGrammar(name) ==
    /\ NameLen(name) <= 250
    /\ \A i \in 1..Len(NameParts(name)) :
          /\ NameParts(name)[i].len \in 1..63
          /\ NameParts(name)[i].match

C3_AddRemoveRoundTrip == hist.removed => Snapshot = hist.pre

\* C4: at most one connection per managed host; after remove_host(H), after
\* update_host_addr(H, addr) and after a transport failure on H the table
\* holds no connection that was opened for H.
C4_ConnectionsClosed ==
    /\ \A h \in DOMAIN inventory :
          Cardinality({k \in DOMAIN cons : cons[k] = h}) <= 1
    /\ (last.op \in {"remove_host", "update_host_addr"} /\ last.result = "ok") =>
          \A k \in DOMAIN cons : cons[k] # last.arg
    /\ \A i \in 1..Len(last.effects) :
          last.effects[i].kind = "transport_error" =>
             \A k \in DOMAIN cons : cons[k] # last.effects[i].host

Mutators == {"add_host", "remove_host", "update_host_addr",
             "add_host_label", "remove_host_label"}

Persisted == store_inventory.set /\ json_loads(store_inventory.blob) = inventory

Runs(effects, kind) == SelectSeq(effects, LAMBDA e : e.kind = kind)

\* the daemons of a type a cluster runs
Running(rem, daemon_type) ==
    { <<h, i>> \in AllHosts \X (1..4) :
        i <= Len(rem[h]) /\ rem[h][i].daemon_type = daemon_type }

\* the daemons of the spec's service as apply counts them
Current(spec) ==
    IF spec.service_type = "mon" THEN Cardinality(mon_map)
    ELSE Len(_get_daemons(daemon_cache, host_order, spec.service_type, ""))

\* the hosts on which apply sees a daemon of the spec's service
Hosting(spec) ==
    LET ds == _get_daemons(daemon_cache, host_order, spec.service_type, "")
    IN  { ds[i].nodename : i \in 1..Len(ds) }

Apply == {"apply_mgr", "apply_mon"}

\* C6: an apply that repeats the spec of the apply that succeeded before it,
\* with nothing but serve-loop refreshes in between, issues no deploy and no
\* rm-daemon.
C6_ApplyIdempotent ==
    (last.op \in Apply /\ last.repeat) =>
        /\ Runs(last.effects, "deploy") = <<>>
        /\ Runs(last.effects, "rm-daemon") = <<>>

\* C7: an apply that succeeds with delta = spec.count - |current| > 0 deploys
\* on at most delta hosts, each a host that did not host a daemon of the
\* service, and leaves spec.count daemons of the service.
C7_ScaleUpByDelta ==
    [][ (/\ last'.op \in Apply
         /\ last'.result = "ok"
         /\ last'.input.count > Current(last'.input))
        => LET deploys == Runs(last'.effects, "deploy")
           IN  /\ Len(deploys) <= last'.input.count - Current(last'.input)
               /\ \A i \in 1..Len(deploys) :
                     deploys[i].host \notin Hosting(last'.input)
               /\ Cardinality(Running(remote', last'.input.service_type))
                     = last'.input.count ]_vars

\* the managers an rm-daemon was issued for
Removed(effects) ==
    { Runs(effects, "rm-daemon")[i].name.daemon_id :
        i \in 1..Len(Runs(effects, "rm-daemon")) }

\* C8: when apply mgr scales down, a connected manager is removed only if
\* every manager that is not connected is removed too; with four managers
\* (mgr.h1 active, mgr.h2 and mgr.h3 standbys, mgr.h4 not connected) and
\* count=2 the managers removed are mgr.h4 and one of mgr.h2, mgr.h3.
C8_DisconnectedFirst ==
    [][ (/\ last'.op = "apply_mgr"
         /\ last'.result = "ok"
         /\ last'.input.count < Current(last'.input))
        => LET ds == _get_daemons(daemon_cache, host_order, "mgr", "")
               ids == { ds[i].daemon_id : i \in 1..Len(ds) }
               gone == Removed(last'.effects)
           IN  /\ (gone \cap Connected(mgr_map) # {}
                      => (ids \ Connected(mgr_map)) \subseteq gone)
               /\ (/\ ids = { <<"h1">>, <<"h2">>, <<"h3">>, <<"h4">> }
                   /\ mgr_map = [active_name |-> <<"h1">>,
                                 standbys |-> { <<"h2">>, <<"h3">> }]
                   /\ last'.input.count = 2)
                  => gone \in { { <<"h4">>, <<"h2">> }, { <<"h4">>, <<"h3">> } } ]_vars

\* the spec names hosts or a label, as apply_mon requires of it
HasPlacement(spec) == spec.hosts # <<>> \/ spec.label # ""

MonOutcome(lower, equal) ==
    /\ (last'.input.count < Cardinality(mon_map)
          => /\ last'.result = lower
             /\ last'.effects = <<>>
             /\ UNCHANGED <<remote, daemon_cache, mon_map>>)
    /\ (last'.input.count = Cardinality(mon_map)
          => /\ last'.result = equal
             /\ last'.effects = <<>>
             /\ UNCHANGED <<remote, daemon_cache, mon_map>>)

\* C9, as stated: apply mon with a count below the number of monitors fails
\* with NotImplementedError, with a count equal to it completes, and either
\* way runs nothing on any host, whatever the spec.
C9_MonNoScaleDownAnySpec ==
    [][ last'.op = "apply_mon" => MonOutcome("NotImplementedError", "ok") ]_vars

\* C9, amended: apply mon with a spec that names hosts or a label fails with
\* NotImplementedError when its count is below the number of monitors and
\* completes when its count equals it, and either way runs nothing on any
\* host and leaves the daemons, the cache and the monitor map as they were.
C9_MonNoScaleDown ==
    [][ (last'.op = "apply_mon" /\ HasPlacement(last'.input))
        => MonOutcome("NotImplementedError", "ok") ]_vars

C9_Witness ==
    /\ last.op = "apply_mon"
    /\ HasPlacement(last.input)
    /\ last.input.count < Cardinality(mon_map)
    /\ last.result = "NotImplementedError"
    /\ last.effects = <<>>

\* C10: `orch rm` of a name whose service type is mon or mgr, with or without
\* a .NAME, fails and issues no rm-daemon.
C10_RmNeverMonMgr ==
    (last.op = "service_rm" /\ Split(last.arg)[1] \in {"mon", "mgr"}) =>
        /\ last.result # "ok"
        /\ Runs(last.effects, "rm-daemon") = <<>>

(***************************************************************************)
(* Properties of placement resolution                                      *)
(***************************************************************************)
HostNames(hosts) == { hosts[i].hostname : i \in 1..Len(hosts) }

\* C11: when placement.hosts is not empty on entry, load leaves it as it is,
\* also when the spec carries a label or a count.
C11_HostsLeftUnchanged ==
    (last.op = "load" /\ last.input.hosts # <<>>) =>
        /\ ret.error = ""
        /\ ret.spec.hosts = last.input.hosts

\* C12: when placement.hosts is empty and a label is set, load sets
\* placement.hosts to exactly the managed hosts that carry the label.
C12_LabelSelectsLabelled ==
    (last.op = "load" /\ last.input.hosts = <<>> /\ last.input.label # "") =>
        /\ ret.error = ""
        /\ HostNames(ret.spec.hosts) =
              { h \in DOMAIN inventory : InList(last.input.label, inventory[h].labels) }

\* C13: a resolution that returns without error has at least spec.count hosts
\* and no host twice; a count-only spec fails when the pool is empty or
\* smaller than count and otherwise gets exactly count distinct managed hosts.
C13_EnoughDistinctHosts ==
    last.op = "load" =>
        /\ ret.error = "" =>
              /\ Len(ret.spec.hosts) >= last.input.count
              /\ Cardinality(HostNames(ret.spec.hosts)) = Len(ret.spec.hosts)
        /\ (last.input.hosts = <<>> /\ last.input.label = "" /\ last.input.count > 0) =>
              IF Cardinality(DOMAIN inventory) < last.input.count
              THEN ret.error # ""
              ELSE /\ ret.error = ""
                   /\ Len(ret.spec.hosts) = last.input.count
                   /\ Cardinality(HostNames(ret.spec.hosts)) = last.input.count
                   /\ HostNames(ret.spec.hosts) \subseteq DOMAIN inventory

(***************************************************************************)
(* Properties of the name generator                                        *)
(***************************************************************************)
\* C14: get_unique_name never returns an id that a daemon of the existing
\* list has, and it raises when the forced name is in use.
C14_UniqueName ==
    last.op = "get_unique_name" =>
        /\ last.result = "ok" => ~IdInUse(ret.existing, ret.name)
        /\ (ret.forcename # <<>> /\ IdInUse(ret.existing, ret.forcename))
              => last.result = "RuntimeError"

C14_Witness ==
    /\ last.op = "get_unique_name"
    /\ ret.forcename = <<>>
    /\ IdInUse(ret.existing, DrawnName(ret.host, ret.prefix, ret.draws[1]))
    /\ ret.name = <<"h1", "t2">>
    /\ ret.host = "h1.dom"

(***************************************************************************)
(* Properties of the rolling upgrade                                       *)
(***************************************************************************)
\* the pass of _do_upgrade the last turn of the loop ran
Pass == ret[1]

InPass == last.op = "_do_upgrade"

\* the daemons the last operation deployed, or tried to
Deploys ==
    { last.effects[i].name :
        i \in { k \in 1..Len(last.effects) : last.effects[k].kind = "deploy" } }

\* the types that come before a type in the order mgr, mon, osd, rgw, mds
EarlierTypes(daemon_type) ==
    CASE daemon_type = "mgr" -> {}
      [] daemon_type = "mon" -> {"mgr"}
      [] daemon_type = "osd" -> {"mgr", "mon"}
      [] daemon_type = "rgw" -> {"mgr", "mon", "osd"}
      [] daemon_type = "mds" -> {"mgr", "mon", "osd", "rgw"}
      [] OTHER -> {}

Observed(types) ==
    { Pass.daemons[i] :
        i \in { k \in 1..Len(Pass.daemons) : Pass.daemons[k].daemon_type \in types } }

\* C15: a pass of the upgrade redeploys a daemon of a type only when every
\* daemon it observed of the types before it in the order mgr, mon, osd,
\* rgw, mds runs the image with the target id.
C15_TypesInOrder ==
    InPass =>
        \A n \in Deploys :
           \A d \in Observed(EarlierTypes(n.daemon_type)) :
              d.container_image_id = Pass.target_id

C15_Witness ==
    /\ InPass
    /\ \E n \in Deploys : n.daemon_type = "mds"
    /\ Observed({"mgr"}) # {}
    /\ Observed({"mon"}) # {}

\* how often the last operation ran a command on a daemon with an exit code
Count(kind, name, code) ==
    Cardinality({ i \in 1..Len(last.effects) :
                    /\ last.effects[i].kind = kind
                    /\ last.effects[i].name = name
                    /\ last.effects[i].code = code })

\* C16: a pass redeploys a monitor, an OSD or a metadata server only after an
\* ok-to-stop query for it succeeded in the pass, and after four refused
\* queries it neither sets the daemon's container_image nor redeploys it.
C16_OkToStopGate ==
    InPass =>
        \A d \in Observed({"mon", "osd", "mds"}) :
           LET name == Section(d.daemon_type, d.daemon_id)
           IN  /\ name \in Deploys => Count("ok-to-stop", name, 0) > 0
               /\ Count("ok-to-stop", name, 1) >= OkToStopTries
                     => /\ name \notin Deploys
                        /\ Count("config set", name, 0) = 0

\* the last pass knew the target id when it started and pulled an image
\* with another id on the host of a daemon
PulledAnotherId ==
    /\ InPass
    /\ Pass.before.target_id # NoneVal
    /\ \E i \in 1..Len(last.effects) :
          last.effects[i].kind = "pull" /\ last.effects[i].code = 0
    /\ registry # Pass.before.target_id

\* C17: a pass whose pull on a daemon's host returns an id other than the
\* recorded target id records the pulled id as the target id, saves the
\* upgrade state and redeploys nothing.
C17_TargetIdFollowsPull ==
    PulledAnotherId =>
        /\ upgrade_state.target_id = registry
        /\ store_upgrade_state = Stored(json_dumps(upgrade_state))
        /\ Deploys = {}

\* the last operation ran a pull that failed
FailedPull ==
    \E i \in 1..Len(last.effects) :
       last.effects[i].kind = "pull" /\ last.effects[i].code # 0

\* the sections whose container_image the last operation set
ConfigSets ==
    { last.effects[i].name :
        i \in { k \in 1..Len(last.effects) : last.effects[k].kind = "config set" } }

\* what a pass that ends in a failed pull leaves behind
PausedOnFailedPull ==
    /\ "UPGRADE_FAILED_PULL" \in DOMAIN health_checks
    /\ upgrade_state.error = "UPGRADE_FAILED_PULL"
    /\ upgrade_state.paused
    /\ store_upgrade_state = Stored(json_dumps(upgrade_state))
    /\ Deploys = {}

\* C18 as it is stated: a pass in which a pull fails raises
\* UPGRADE_FAILED_PULL, pauses the upgrade and saves that, and sets no
\* container_image and redeploys nothing.
C18_FailedPullNoConfigChange ==
    (InPass /\ FailedPull) => (PausedOnFailedPull /\ ConfigSets = {})

\* C18, amended: a pass in which a pull fails raises UPGRADE_FAILED_PULL,
\* pauses the upgrade and saves that, redeploys nothing and sets the
\* container_image of no daemon (it may have set the one of a daemon type it
\* found complete); no pass runs on a paused upgrade, only `upgrade resume`,
\* `upgrade start` and `upgrade stop` end the pause, and a resume changes
\* nothing else of the upgrade state, so the next pass tries again.
C18_FailedPullPauses ==
    [][/\ (InPass /\ FailedPull)' =>
             (PausedOnFailedPull /\ \A sec \in ConfigSets : sec.daemon_id = <<>>)'
       /\ upgrade_state.paused => ~InPass'
       /\ (upgrade_state.paused /\ ~upgrade_state'.paused) =>
             last'.op \in {"upgrade_resume", "upgrade_start", "upgrade_stop"}
       /\ (last'.op = "upgrade_resume" /\ last'.result = "Resumed") =>
             /\ upgrade_state.paused
             /\ upgrade_state' = [upgrade_state EXCEPT !.paused = FALSE]
             /\ store_upgrade_state' = Stored(json_dumps(upgrade_state'))
      ]_vars

C18_Witness ==
    /\ InPass
    /\ FailedPull
    /\ Pass.before.error = "UPGRADE_FAILED_PULL"
    /\ ~Pass.before.paused
    /\ upgrade_state.paused

\* the upgrade alerts that are raised
UpgradeAlerts ==
    DOMAIN health_checks \cap {"UPGRADE_FAILED_PULL", "UPGRADE_NO_STANDBY_MGR"}

\* the last pass pulled and no pull failed
PulledAll ==
    /\ InPass
    /\ ~FailedPull
    /\ \E i \in 1..Len(last.effects) : last.effects[i].kind = "pull"

\* the last pass completed the upgrade
Completed == InPass /\ ~upgrade_state.active

\* C19: UPGRADE_FAILED_PULL is not raised after a pass whose pulls
\* succeeded, and no upgrade alert is raised after the pass that completes
\* the upgrade.
C19_AlertsCleared ==
    /\ PulledAll => "UPGRADE_FAILED_PULL" \notin UpgradeAlerts
    /\ Completed => UpgradeAlerts = {}

\* the manager the last pass ran in, as a section
ActiveMgr == Section("mgr", Pass.mgr_id)

\* the managers the last pass observed next to the one it ran in
OtherMgrs == { d \in Observed({"mgr"}) : d.daemon_id # Pass.mgr_id }

FailedOver == Count("mgr fail", ActiveMgr, 0) > 0

\* the last pass found only the active manager left to upgrade
OnlySelfLeft ==
    /\ InPass
    /\ Pass.target_id # NoneVal
    /\ \E d \in Observed({"mgr"}) :
          d.daemon_id = Pass.mgr_id /\ d.container_image_id # Pass.target_id
    /\ \A d \in OtherMgrs : d.container_image_id = Pass.target_id

\* C20: a pass never redeploys the manager it runs in; it fails that manager
\* over only when every other manager it observed is at the target id and
\* the manager map lists a standby; and when only the active manager is left
\* and there is no standby it raises UPGRADE_NO_STANDBY_MGR, pauses, and
\* neither fails over nor redeploys.
C20_ActiveMgrFailsOver ==
    InPass =>
        /\ ActiveMgr \notin Deploys
        /\ FailedOver =>
              /\ \A d \in OtherMgrs : d.container_image_id = Pass.target_id
              /\ Pass.standbys # {}
        /\ (OnlySelfLeft /\ Pass.standbys = {}) =>
              /\ "UPGRADE_NO_STANDBY_MGR" \in DOMAIN health_checks
              /\ upgrade_state.paused
              /\ ~FailedOver
              /\ Deploys = {}

C20_Witness ==
    /\ InPass
    /\ FailedOver
    /\ OtherMgrs # {}
    /\ mgr_map.active_name # Pass.mgr_id

\* the daemon types an upgrade covers
UpgradedTypes == {"mgr", "mon", "osd", "rgw", "mds"}

\* C21: the pass that clears the upgrade state observed every daemon of the
\* types mgr, mon, osd, rgw and mds at the target id, and leaves the global
\* container_image at the target name and no container_image of one of those
\* types or of one of their daemons.
C21_ClearedWhenComplete ==
    Completed =>
        /\ \A d \in Observed(UpgradedTypes) : d.container_image_id = Pass.target_id
        /\ Section("global", <<>>) \in DOMAIN config
        /\ config[Section("global", <<>>)] = Pass.before.target_name
        /\ \A sec \in DOMAIN config : sec.daemon_type \notin UpgradedTypes

C21_Witness ==
    /\ Completed
    /\ Observed({"mgr"}) # {}
    /\ Observed({"mon"}) # {}
    /\ Observed({"mds"}) # {}
    /\ Pass.before.target_id = "B"

(***************************************************************************)
(* Properties of the upgrade commands                                      *)
(***************************************************************************)
\* __init__: the upgrade state a module finds in the store
LoadUpgradeState(store) ==
    IF store.set THEN json_loads(store.blob) ELSE NoUpgrade

\* the last command ended the sequence start, pause, resume, stop
RoundTrip ==
    /\ last.op = "upgrade_stop"
    /\ hist.cmds = <<"upgrade_start", "upgrade_pause", "upgrade_resume",
                     "upgrade_stop">>

\* as on a cluster on which no upgrade was started: no upgrade state in the
\* module and none for a module that loads the store, no upgrade alert and
\* no container_image setting
AsBeforeUpgrade ==
    /\ upgrade_state = NoUpgrade
    /\ LoadUpgradeState(store_upgrade_state) = NoUpgrade
    /\ UpgradeAlerts = {}
    /\ config = EmptyDict

\* C22 as it is stated: start, pause, resume, stop on a cluster with no
\* upgrade and no container_image setting, with no daemon deployed in
\* between, leaves the cluster as it was before.
C22_RoundTripNoDeploy ==
    (RoundTrip /\ hist.deployed = {}) => AsBeforeUpgrade

\* C22, amended: start, pause, resume, stop on a cluster with no upgrade and
\* no container_image setting, with no daemon deployed and no
\* container_image set by a pass in between, leaves the cluster as it was.
C22_RoundTrip ==
    (RoundTrip /\ hist.deployed = {} /\ ~hist.configured) => AsBeforeUpgrade

C22_Witness ==
    /\ RoundTrip
    /\ hist.deployed = {}
    /\ ~hist.configured
    /\ store_upgrade_state.set
    /\ images["h1"] = "B"
    /\ \E i \in 1..Len(remote["h1"]) : remote["h1"][i].container_image_id = "A"

(***************************************************************************)
(* The upgrade of a healthy cluster                                        *)
(***************************************************************************)
\* the managers that run on the cluster and the images they run
Managers ==
    { d \in UNION { { remote[h][i] : i \in 1..Len(remote[h]) } : h \in AllHosts } :
        d.name.daemon_type = "mgr" }

\* the upgrade is over, every manager runs the new image, every manager
\* that was a standby when the upgrade began was deployed anew, and the
\* active manager was failed over once
UpgradedByFailOver ==
    /\ ~upgrade_state.active
    /\ \A d \in Managers : d.container_image_id = "B"
    /\ \A d \in Managers : d.name.daemon_id # <<"h1">> => d.name \in hist.deployed
    /\ hist.failovers = 1

TurnEnded == last.op \in {"_get_daemons", "_serve_sleep", "_do_upgrade"}

\* the last operation waited on the event
Waited ==
    \E i \in 1..Len(last.effects) : last.effects[i].kind = "event_wait"

\* the last turn ran a pass of the upgrade that left everything as it was
IdlePass ==
    /\ InPass
    /\ upgrade_state = Pass.before
    /\ Deploys = {}
    /\ ConfigSets = {}
    /\ ~FailedOver

\* C24: a turn of the loop of serve waits on the event before the next one
\* starts, also a turn whose pass of the upgrade found nothing it could do
\* (the case the formula takes up; the other turns without a pass do wait).
C24_TurnWaits ==
    (TurnEnded /\ (InPass => IdlePass)) => Waited

\* the refresh of the last turn failed on a host
RefreshFailedOn(h) ==
    \E i \in 1..Len(last.effects) :
       /\ last.effects[i].kind = "ls"
       /\ last.effects[i].host = h
       /\ last.effects[i].code # 0

\* the refresh of the last turn went through on a host
RefreshedOn(h) ==
    \E i \in 1..Len(last.effects) :
       /\ last.effects[i].kind = "ls"
       /\ last.effects[i].host = h
       /\ last.effects[i].code = 0

\* C25: a turn of the loop of serve whose refresh of the daemons failed on
\* one host and went through on another goes on all the same: it raises
\* CEPHADM_REFRESH_FAILED, it checks for strays, and it does not wait before
\* the step of an upgrade that is under way has had its turn.
C25_FailedRefreshGoesOn ==
    (/\ TurnEnded
     /\ \E h, g \in DOMAIN inventory : RefreshFailedOn(h) /\ RefreshedOn(g))
        => /\ "CEPHADM_REFRESH_FAILED" \in DOMAIN health_checks
           /\ HasEffect("_check_for_strays")
           /\ ~Waited

(***************************************************************************)
(* Properties of the check for strays                                      *)
(***************************************************************************)
\* the last operation was a turn of the loop of serve that checked for strays
StraysChecked == HasEffect("_check_for_strays")

\* the hosts the cluster reports daemons on that are not in the inventory
StrayHosts == { h \in DOMAIN remote : remote[h] # <<>> /\ h \notin DOMAIN inventory }

\* the daemons cephadm manages, by name
ManagedNames ==
    LET daemons == _get_daemons(daemon_cache, host_order, "", "")
    IN  { Section(daemons[i].daemon_type, daemons[i].daemon_id) :
          i \in 1..Len(daemons) }

\* the daemons the cluster reports, each with its host, whose name no managed
\* daemon has
StrayDaemons ==
    { x \in UNION { { <<remote[h][i].name, h>> : i \in 1..Len(remote[h]) } :
                    h \in DOMAIN remote } :
        x[1] \notin ManagedNames }

\* an alert is raised exactly when there is something to tell, with the count
\* and the detail of it
RaisedFor(check, what) ==
    IF what = {} THEN check \notin DOMAIN health_checks
    ELSE /\ check \in DOMAIN health_checks
         /\ health_checks[check].count = Cardinality(what)
         /\ health_checks[check].detail = what

\* one of the two options on strays is on
WarnOnStrays ==
    \/ get_module_option(config, "warn_on_stray_hosts")
    \/ get_module_option(config, "warn_on_stray_daemons")

C27_NoCommandDuringPass ==
    (InPass /\ ~Pass.before.paused /\ upgrade_state.active /\ upgrade_state.paused)
        => upgrade_state.error # NoneVal

(***************************************************************************)
(* Properties of the completions                                           *)
(***************************************************************************)
\* the places of a chain's log where something of a kind happened to a link
Events(c, kind, i) ==
    { k \in 1..Len(chains[c].log) :
        chains[c].log[k].kind = kind /\ chains[c].log[k].link = i }

\* C28: in a chain a.then(b).then(c) the callback of a link after the first
\* is put on the pool, and run by it, only after the link before it has come
\* to its result, and with that result as its argument; after a link has
\* failed no callback of a later link is put on the pool or run.
C28_ChainInOrder ==
    \A c \in 1..Len(chains) : \A k \in 1..Len(chains[c].log) :
       LET e == chains[c].log[k]
       IN  /\ (e.kind \in {"schedule", "call"} /\ e.link > 1)
                 => \E j \in Events(c, "result", e.link - 1) :
                       j < k /\ chains[c].log[j].value = e.value
           /\ e.kind = "call"
                 => \E j \in Events(c, "schedule", e.link) :
                       j < k /\ chains[c].log[j].value = e.value
           /\ e.kind \in {"schedule", "call"}
                 => \A i \in 1..ChainLen :
                       i < e.link => Events(c, "error", i) = {}

\* a chain of three callbacks that ran one after the other, each on the
\* result of the one before, and a chain whose second callback raised and
\* whose third never ran
C28_Witness ==
    \E c, d \in 1..Len(chains) :
       /\ \E k \in Events(c, "call", 3) :
             chains[c].log[k].value = Result(2, Result(1, <<"h1">>))
       /\ chains[c].links[3].state = "resolved"
       /\ Events(d, "error", 2) # {}
       /\ chains[d].links[3].state = "failed"
       /\ Events(d, "call", 3) = {}
       /\ _worker_pool.queue = <<>>

\* the place of a chain's log where it was cancelled, if it was
Cancelled(c) == { k \in 1..Len(chains[c].log) : chains[c].log[k].kind = "cancel" }

\* C29: the result of a link is handed to the next link once and no more,
\* and once when the link is resolved; and after cancel_completions no link
\* of a chain that was cancelled is handed a result or put on the pool,
\* while the work that was on the pool may still come to its end.
C29_OnceAndNotAfterCancel ==
    \A c \in 1..Len(chains) :
       /\ \A i \in 1..(ChainLen - 1) :
             /\ Cardinality(Events(c, "pass", i)) <= 1
             /\ chains[c].links[i].state = "resolved"
                   <=> Cardinality(Events(c, "pass", i)) = 1
             /\ Events(c, "pass", i) # {}
                   => chains[c].links[i + 1].state # "pending"
       /\ \A k \in Cancelled(c) : \A j \in 1..Len(chains[c].log) :
             j > k => chains[c].log[j].kind \notin {"pass", "schedule"}

\* a chain cancelled while the callback of its first link ran on the pool:
\* the callback came to its result, and the second link was never run
C29_Witness ==
    \E c \in 1..Len(chains) : \E k \in Cancelled(c) :
       /\ \E j \in Events(c, "call", 1) : j < k
       /\ \E j \in Events(c, "result", 1) : j > k
       /\ chains[c].links[2].state = "cancelled"
       /\ Events(c, "schedule", 2) = {}
       /\ _worker_pool.running = <<>>

(***************************************************************************)
(* Properties of shutdown                                                  *)
(***************************************************************************)
\* C30: after shutdown the pool has been joined and every connection of the
\* connection table has been closed, so that the table is empty.
C30_ShutdownReleases ==
    ~run => (_worker_pool.joined /\ cons = EmptyDict)

(***************************************************************************)
(* Properties of the add of daemons                                        *)
(***************************************************************************)
\* the daemons of a list that belong to a service: those of its type whose
\* id begins with the part that is the service's name, all of the type when
\* the service has no name
ServiceDaemons(daemons, daemon_type, name) ==
    SelectSeq(daemons, LAMBDA d : /\ d.daemon_type = daemon_type
                                  /\ (name # NoneVal => d.daemon_id[1] = name))

Added == last.op \in {"add_mds", "add_rbd-mirror"}

\* C31: a scale-up through _add_new_daemon either succeeds with the observed
\* daemons of the service plus the created ones equal to spec.count, every
\* created daemon on a placement host that had no daemon of the type and no
\* two created daemons on one host, or fails with the placement error that
\* reports the missing count, with no deploy issued.
C31_ScaleUpOrPlacementError ==
    LET existing == Len(ServiceDaemons(ret.daemons, last.input.service_type,
                                       last.arg))
        spec == last.input
    IN  (Added /\ last.result \in {"ok", "OrchestratorError"}
               /\ existing < spec.count) =>
           IF last.result = "ok"
           THEN /\ existing + Len(ret.args) = spec.count
                /\ \A i \in 1..Len(ret.args) :
                      /\ \E j \in 1..Len(spec.hosts) :
                            spec.hosts[j].hostname = ret.args[i].host
                      /\ \A k \in 1..Len(ret.daemons) :
                            ret.daemons[k].nodename # ret.args[i].host
                /\ \A i, j \in 1..Len(ret.args) :
                      i # j => ret.args[i].host # ret.args[j].host
           ELSE /\ ret.missing = spec.count - existing
                /\ ~HasEffect("deploy")

\* C32: when apply mgr scales down from n observed managers to spec.count,
\* the victims handed to remove are n - spec.count and no daemon is among
\* them twice, whichever managers are connected and whatever the order of
\* the observed list.
C32_VictimsExactOnce ==
    [][ (/\ last'.op = "apply_mgr"
         /\ last'.result = "ok"
         /\ last'.input.count < Current(last'.input))
        => LET victims == Runs(last'.effects, "rm-daemon")
           IN  /\ Len(victims) = Current(last'.input) - last'.input.count
               /\ \A i, j \in 1..Len(victims) :
                     i # j => victims[i].name # victims[j].name ]_vars

\* the first of the draws that no daemon of the existing list has
RECURSIVE FirstFree(_, _, _, _)
FirstFree(host, existing, prefix, draws) ==
    IF ~IdInUse(existing, DrawnName(host, prefix, Head(draws)))
    THEN DrawnName(host, prefix, Head(draws))
    ELSE FirstFree(host, existing, prefix, Tail(draws))

\* C33: when a drawn id is the id of a daemon of the existing list,
\* get_unique_name does not fail but draws again, and it returns the first
\* drawn id that is free.
C33_RetryOnCollision ==
    (/\ last.op = "get_unique_name"
     /\ ret.forcename = <<>>
     /\ IdInUse(ret.existing, DrawnName(ret.host, ret.prefix, ret.draws[1])))
    => /\ last.result = "ok"
       /\ ret.name = FirstFree(ret.host, ret.existing, ret.prefix, ret.draws)

\* the hosts whose daemon cache entry has no last_refresh
NeverRefreshed == { h \in DOMAIN daemon_cache : daemon_cache[h].last_refresh = NoneVal }

\* C34: for a host whose cache entry has no last_refresh and for which no
\* refresh is asked, _get_daemons serves the single entry *.*, also when it
\* is called with a daemon type, and an add creates no daemon on that host.
C34_UnknownHostSkipped ==
    [][ (last'.op \in {"add_mds", "add_rbd-mirror"} /\ last'.result = "ok")
        => /\ \A h \in NeverRefreshed :
                 \E d \in { ret'.daemons[i] : i \in 1..Len(ret'.daemons) } :
                    d.nodename = h /\ d.daemon_type = "*"
           /\ \A i \in 1..Len(ret'.args) : ret'.args[i].host \notin NeverRefreshed ]_vars

(***************************************************************************)
(* Properties of the daemon cache                                          *)
(***************************************************************************)
\* the names of the daemons for which a run of `command` on a host succeeded
Succeeded(effects, command, host) ==
    { effects[i].name : i \in { k \in 1..Len(effects) :
                                  /\ effects[k].kind = command
                                  /\ effects[k].host = host
                                  /\ effects[k].code = 0 } }

\* the records of a list whose name is not in a set
Others(ls, names) == SelectSeq(ls, LAMBDA d : d.name \notin names)

\* C35: after a successful create of a daemon on a host the host's daemon
\* cache entry holds exactly one record of that name, running and of the
\* cluster's fsid, the other records are as before and the entry is stale;
\* after a successful remove the record is gone and the entry is stale; a
\* host on which the deploy or rm-daemon failed keeps its cache entry.
C35_CachePrimed ==
    [][ last'.op = "apply_mgr"
        => \A h \in DOMAIN daemon_cache :
              LET created == Succeeded(last'.effects, "deploy", h)
                  removed == Succeeded(last'.effects, "rm-daemon", h)
                  before  == daemon_cache[h].data
                  after   == daemon_cache'[h].data
              IN  IF created \cup removed = {}
                  THEN daemon_cache'[h] = daemon_cache[h]
                  ELSE /\ \A n \in created :
                             /\ Len(SelectSeq(after, LAMBDA d : d.name = n)) = 1
                             /\ \A i \in 1..Len(after) :
                                   after[i].name = n
                                      => /\ after[i].state = "running"
                                         /\ after[i].fsid = _cluster_fsid
                       /\ \A n \in removed : ~HasDaemon(after, n)
                       /\ Others(after, created \cup removed)
                             = Others(before, created \cup removed)
                       /\ outdated(daemon_cache'[h]) ]_vars

\* a manager was created on h1, whose cache entry held the monitor's record
C35_Witness ==
    /\ last.op = "apply_mgr"
    /\ Succeeded(last.effects, "deploy", "h1") # {}
    /\ Len(daemon_cache["h1"].data) = 2
    /\ HasDaemon(daemon_cache["h1"].data, [daemon_type |-> "mon", daemon_id |-> <<"h1">>])
    /\ outdated(daemon_cache["h1"])

\* the places of the deploys among what the last operation did
DeployAt == { k \in 1..Len(last.effects) : last.effects[k].kind = "deploy" }

PausedAt == { k \in 1..Len(last.effects) : last.effects[k].kind = "upgrade_pause" }

\* C37: once upgrade pause has returned, the pass in progress issues no
\* redeploy, no fail-over of the manager and no change of a container_image
\* setting and does not write upgrade_state, whatever the place of the pass
\* at which the pause lands.
C37_PauseStopsPass ==
    InPass =>
        \A k \in PausedAt : \A j \in (k + 1)..Len(last.effects) :
           last.effects[j].kind \notin {"deploy", "config set", "mgr fail",
                                        "save_upgrade_state"}

\* the operations that change upgrade_state
ChangesUpgrade ==
    last.op \in {"upgrade_start", "upgrade_pause", "upgrade_resume", "upgrade_stop",
                 "_do_upgrade"}

\* C38: after a command of the upgrade and after every pass of the state
\* machine, a module that loads the persisted upgrade state finds the state
\* the running module has in memory: the same target, paused flag and error,
\* and no upgrade after a stop or when the upgrade is complete.
C38_RestartSafe ==
    ChangesUpgrade =>
        LET loaded == LoadUpgradeState(store_upgrade_state)
        IN  /\ loaded = upgrade_state
            /\ loaded.active = upgrade_state.active
            /\ loaded.target_name = upgrade_state.target_name
            /\ loaded.target_id = upgrade_state.target_id
            /\ loaded.paused = upgrade_state.paused
            /\ loaded.error = upgrade_state.error
            /\ (last.op = "upgrade_stop" => loaded = NoUpgrade)

\* a pass recorded a failure and paused the upgrade, and the store has both
C38_Witness ==
    /\ last.op = "_do_upgrade"
    /\ upgrade_state.active
    /\ upgrade_state.paused
    /\ upgrade_state.error # NoneVal
    /\ upgrade_state.target_id # NoneVal
    /\ store_upgrade_state.set
    /\ LoadUpgradeState(store_upgrade_state).error = upgrade_state.error

(***************************************************************************)
(* Properties of the event gate                                            *)
(***************************************************************************)
\* the loop is in event.wait with the event clear: it sleeps the interval
\* out unless the event is set
Sleeping == hist.pc = "wait" /\ ~event

\* C39: no wake-up is lost: the loop does not sleep while a change whose
\* mutator has set the event is not seen by an iteration; the iteration that
\* follows the clear began after the set, wherever between the wait and the
\* clear the set has landed.
C39_NoLostWakeup ==
    Sleeping => hist.seen >= hist.announced

\* the event was set between the return of the wait and the clear, which
\* cleared it, and the iteration after the clear saw the change
C39_Witness ==
    /\ Sleeping
    /\ hist.at = "clear"
    /\ hist.announced > 0
    /\ hist.seen = hist.announced
    /\ ~hist.pending

\* the step is a command of the upgrade
Commanded(op) == ops' = ops + 1 /\ last'.op = op

\* the command left the upgrade as it was, in the module and in the store
UpgradeUntouched ==
    UNCHANGED <<upgrade_state, store_upgrade_state, config, health_checks>>

\* C40: upgrade start while an upgrade to another target is in progress
\* fails and leaves the upgrade state and its blob as they are; with the
\* same target it clears the paused flag of a paused upgrade, saves that,
\* and changes nothing of an upgrade that is not paused; upgrade pause and
\* upgrade resume fail when no upgrade is in progress, and upgrade stop
\* then changes nothing.
C40_CommandsOutOfTurn ==
    [][ /\ (Commanded("upgrade_start") /\ upgrade_state.active)
           => IF upgrade_state.target_name # last'.arg
              THEN last'.result = "OrchestratorError" /\ UpgradeUntouched
              ELSE IF upgrade_state.paused
              THEN /\ last'.result = "Resumed"
                   /\ upgrade_state' = [upgrade_state EXCEPT !.paused = FALSE]
                   /\ store_upgrade_state' = Stored(json_dumps(upgrade_state'))
                   /\ UNCHANGED <<config, health_checks>>
              ELSE last'.result = "in progress" /\ UpgradeUntouched
        /\ ((Commanded("upgrade_pause") \/ Commanded("upgrade_resume"))
            /\ ~upgrade_state.active)
           => last'.result = "OrchestratorError" /\ UpgradeUntouched
        /\ (Commanded("upgrade_stop") /\ ~upgrade_state.active)
           => last'.result = "No upgrade" /\ UpgradeUntouched ]_vars

\* an upgrade start for another target than the one in progress has failed
C40_Witness ==
    /\ last.op = "upgrade_start"
    /\ last.result = "OrchestratorError"
    /\ upgrade_state.active
    /\ upgrade_state.target_name # last.arg
    /\ ops = 2
====
